---- MODULE Spec2Model ----
(***************************************************************************)
(* AgenticChessCoach: the game-selection request, the per-game analysis    *)
(* workflow, the user-synthesis workflow and the look-alike workflow, all  *)
(* communicating through the MongoDB collections game_analysis and         *)
(* user_analysis.                                                          *)
(*                                                                         *)
(* JavaScript values are records tagged by "ty"; a string is a sequence of *)
(* tokens, so that trimming, fence stripping and JSON.parse are computed   *)
(* on the text and not assumed.                                            *)
(***************************************************************************)
EXTENDS Naturals, Integers, Sequences, FiniteSets, Bags, TLC

VARIABLES
  rawGames,      \* the games the Lichess API returned to the last request
  games,         \* collection game_analysis: gameId -> document
  userAnalysis,  \* collection user_analysis: the user's document, or NoDoc
  tasks,         \* bag of analyzeGameWorkflow runs
  synths,        \* bag of synthesizeUserAnalysisWorkflow runs
  looks,         \* bag of lookAlikeGamesWorkflow runs
  requests,      \* number of GET /api/games requests served
  response,      \* body of the last GET /api/games response
  profileWrites, \* history: gamesAnalyzed of every user_analysis write so far
  everAnalyzed,  \* history: the games ever saved with an analysis
  verdictOwed,   \* history: a look-alike verdict has been due ever since
  now            \* the clock that new Date() reads, in saves of an analysis

vars == <<rawGames, games, userAnalysis, tasks, synths, looks, requests,
          response, profileWrites, everAnalyzed, verdictOwed, now>>

(***************************************************************************)
(* Bounds of the model.                                                    *)
(***************************************************************************)
\* games the provider knows beside game K in the pipeline specification
NumNew == 1
\* GET /api/games requests served in the pipeline specification
MaxRequests == 2
\* analyzeGameWorkflow runs started in the pipeline specification
MaxTasks == 2
\* most games of one result in the selector specification
MaxPerResult == 12

(***************************************************************************)
(* JavaScript values.                                                      *)
(***************************************************************************)
Undefined == [ty |-> "undef"]
Null == [ty |-> "null"]
Bool(b) == [ty |-> "bool", b |-> b]
Num(n) == [ty |-> "num", n |-> n]
Str(s) == [ty |-> "str", s |-> s]
Arr(a) == [ty |-> "arr", a |-> a]
Obj(o) == [ty |-> "obj", o |-> o]

\* a text token: whitespace, a code fence, a word of prose, or the text of one
\* JSON value
Ws == [t |-> "ws"]
FenceJson == [t |-> "fence_json"]
Fence == [t |-> "fence"]
Word(w) == [t |-> "word", w |-> w]
JsonText(v) == [t |-> "json", v |-> v]

EmptyString == Str(<<>>)
Text(w) == Str(<<Word(w)>>)

\* ToBoolean
Truthy(v) ==
  CASE v.ty = "undef" -> FALSE
    [] v.ty = "null" -> FALSE
    [] v.ty = "bool" -> v.b
    [] v.ty = "num" -> v.n # 0
    [] v.ty = "str" -> v.s # <<>>
    [] OTHER -> TRUE

\* a || b
Or(a, b) == IF Truthy(a) THEN a ELSE b

\* o.name, for o of any type but null and undefined
Get(o, name) ==
  IF o.ty = "obj" /\ name \in DOMAIN o.o THEN o.o[name] ELSE Undefined

\* the driver writes undefined as null (MongoClient without ignoreUndefined)
Bson(v) == IF v.ty = "undef" THEN Null ELSE v

(***************************************************************************)
(* String.prototype.trim and the two fence-stripping replaces.             *)
(***************************************************************************)
RECURSIVE TrimStart(_)
TrimStart(s) ==
  IF s # <<>> /\ Head(s) = Ws THEN TrimStart(Tail(s)) ELSE s

RECURSIVE TrimEnd(_)
TrimEnd(s) ==
  IF s # <<>> /\ s[Len(s)] = Ws THEN TrimEnd(SubSeq(s, 1, Len(s) - 1)) ELSE s

Trim(s) == TrimEnd(TrimStart(s))

\* the replace that removes the opening fence and the whitespace after it
StripOpeningFence(s) == TrimStart(Tail(s))

\* the replace that removes whitespace and a fence at the very end
StripClosingFence(s) ==
  IF s # <<>> /\ s[Len(s)] = Fence
  THEN TrimEnd(SubSeq(s, 1, Len(s) - 1))
  ELSE s

StripFences(responseText) ==
  LET jsonText == Trim(responseText) IN
  IF jsonText # <<>> /\ Head(jsonText) = FenceJson
  THEN StripClosingFence(StripOpeningFence(jsonText))
  ELSE IF jsonText # <<>> /\ Head(jsonText) = Fence
  THEN StripClosingFence(StripOpeningFence(jsonText))
  ELSE jsonText

\* JSON.parse: the text of exactly one JSON value, surrounded by whitespace at
\* most; anything else throws
JsonParses(s) == Len(Trim(s)) = 1 /\ Trim(s)[1].t = "json"
JsonParse(s) == Trim(s)[1].v

(***************************************************************************)
(* analyzeGameWithGemini, from the response text on.                       *)
(***************************************************************************)
\* a.slice(0, n)
Slice(a, n) == SubSeq(a, 1, IF Len(a) < n THEN Len(a) ELSE n)

\* the try block completes: the text parses and the parsed value is one whose
\* properties can be read
ParseSucceeds(responseText) ==
  /\ JsonParses(StripFences(responseText))
  /\ JsonParse(StripFences(responseText)).ty # "null"

ParseFailureMutant(responseText) ==
  [ finalAnalysis |-> Str(responseText),
    detailedAnalysis |-> Null,
    concepts |-> Arr(<<>>),
    opening |-> Null,
    isRepresentative |-> Bool(FALSE) ]

ParseFailureResult(responseText) ==
  [ finalAnalysis |-> Str(responseText),
    detailedAnalysis |-> Null,
    concepts |-> Arr(<<>>),
    opening |-> Null,
    isRepresentative |-> Bool(TRUE) ]

ParsedResult(responseText) ==
  LET parsedResponse == JsonParse(StripFences(responseText)) IN
  [ finalAnalysis |->
      Or(Get(parsedResponse, "finalAnalysis"),
         Or(Get(parsedResponse, "detailedAnalysis"), Str(responseText))),
    detailedAnalysis |-> Or(Get(parsedResponse, "detailedAnalysis"), Null),
    concepts |->
      IF Get(parsedResponse, "concepts").ty = "arr"
      THEN Arr(Slice(Get(parsedResponse, "concepts").a, 5))
      ELSE Arr(<<>>),
    opening |-> Or(Get(parsedResponse, "opening"), Null),
    isRepresentative |->
      IF Get(parsedResponse, "isRepresentative") # Undefined
      THEN Bool(Truthy(Get(parsedResponse, "isRepresentative")))
      ELSE Bool(TRUE) ]

analyzeGameWithGemini(responseText) ==
  IF ParseSucceeds(responseText)
  THEN ParsedResult(responseText)
  ELSE ParseFailureResult(responseText)

(***************************************************************************)
(* GET /api/games: processing, sorting and selecting the games.            *)
(***************************************************************************)
\* the computed fields of one game; userColor "none" is undefined
ProcessGame(game) ==
  [ id |-> game.id,
    userColor |-> game.userColor,
    rating |-> game.rating,
    duration |-> game.duration,
    ratingDiff |-> game.ratingDiff,
    result |->
      IF game.status = "draw" \/ game.winner = "none" THEN "draw"
      ELSE IF game.userColor = "white" /\ game.winner = "white" THEN "win"
      ELSE IF game.userColor = "black" /\ game.winner = "black" THEN "win"
      ELSE IF game.userColor # "none" THEN "loss"
      ELSE "none" ]

\* seq.filter(Keep) for the predicates the route uses
RECURSIVE FilterSeq(_, _)
FilterSeq(seq, keep) ==
  IF seq = <<>> THEN <<>>
  ELSE IF Head(seq) \in keep
       THEN <<Head(seq)>> \o FilterSeq(Tail(seq), keep)
       ELSE FilterSeq(Tail(seq), keep)

Elems(seq) == {seq[i] : i \in 1..Len(seq)}

MapProcess(seq) == [i \in 1..Len(seq) |-> ProcessGame(seq[i])]

\* the comparator: duration descending, then rating difference ascending
ComesBefore(a, b) ==
  \/ b.duration < a.duration
  \/ b.duration = a.duration /\ a.ratingDiff < b.ratingDiff

\* Array.prototype.sort is stable: an element moves in front of those it
\* strictly comes before
RECURSIVE InsertSorted(_, _)
InsertSorted(sorted, g) ==
  IF sorted = <<>> THEN <<g>>
  ELSE IF ComesBefore(g, Head(sorted))
       THEN <<g>> \o sorted
       ELSE <<Head(sorted)>> \o InsertSorted(Tail(sorted), g)

RECURSIVE SortGames(_)
SortGames(seq) ==
  IF seq = <<>> THEN <<>>
  ELSE InsertSorted(SortGames(SubSeq(seq, 1, Len(seq) - 1)), seq[Len(seq)])

processedGames(raw) ==
  LET mapped == MapProcess(raw) IN
  SortGames(FilterSeq(mapped, {g \in Elems(mapped) : g.userColor # "none"}))

WithResult(seq, r) == FilterSeq(seq, {g \in Elems(seq) : g.result = r})

Min(a, b) == IF a < b THEN a ELSE b

targetCount == 25
maxReturnCount == 15
winsQuotaMutant == 10 + 1
winsQuota == 10
lossesQuota == 10
drawsQuota == 5

selectedGamesMutant(raw) ==
  LET sorted == processedGames(raw)
      wins == WithResult(sorted, "win")
      losses == WithResult(sorted, "loss")
      draws == WithResult(sorted, "draw")
  IN Slice(Slice(wins, Min(winsQuota, Len(wins)))
             \o Slice(losses, Min(lossesQuota, Len(losses)))
             \o Slice(draws, Min(drawsQuota, Len(draws))),
           targetCount)

selectedGames(raw) ==
  LET sorted == processedGames(raw)
      wins == WithResult(sorted, "win")
      losses == WithResult(sorted, "loss")
      draws == WithResult(sorted, "draw")
      quota == Slice(wins, Min(winsQuota, Len(wins)))
                 \o Slice(losses, Min(lossesQuota, Len(losses)))
                 \o Slice(draws, Min(drawsQuota, Len(draws)))
      selectedGameIds == {g.id : g \in Elems(quota)}
      remaining ==
        FilterSeq(sorted, {g \in Elems(sorted) : g.id \notin selectedGameIds})
      needed == targetCount - Len(quota)
      filled ==
        IF needed > 0 /\ Len(remaining) > 0
        THEN quota \o Slice(remaining, needed)
        ELSE quota
  IN Slice(filled, targetCount)

(***************************************************************************)
(* The collections.                                                        *)
(***************************************************************************)
\* the baseline size and the synthesis period
K == 10
SynthesisPeriod == 3

NoDoc == [username |-> "none"]

\* updateOne(key, {$set: doc}, {upsert: true}) with a doc that names every field
Upsert(coll, id, doc) ==
  [k \in DOMAIN coll \cup {id} |-> IF k = id THEN doc ELSE coll[k]]

BsonFields(o) == [f \in DOMAIN o |-> Bson(o[f])]

\* createGameAnalysisDocument as the driver writes it
createGameAnalysisDocument(game, analysis, pgn) ==
  [ result |-> game.result,
    userRating |-> Bson(game.rating),
    analysis |-> IF analysis.ty = "obj" THEN Obj(BsonFields(analysis.o)) ELSE Bson(analysis),
    pgn |-> Bson(pgn) ]

\* "analysis.finalAnalysis": {$exists: true, $ne: null}
HasAnalysis(doc) == Get(doc.analysis, "finalAnalysis") \notin {Undefined, Null}

AnalyzedIds(coll) == {id \in DOMAIN coll : HasAnalysis(coll[id])}

\* checkGamesCount and verifyTenGamesAnalyzed: countDocuments
checkGamesCount(coll) == Cardinality(AnalyzedIds(coll))

\* "analysis.original": true
IsOriginal(doc) == Get(doc.analysis, "original") = Bool(TRUE)

OriginalIds(coll) == {id \in DOMAIN coll : IsOriginal(coll[id])}

\* analysis.original false or absent, analyzed, analysis.isValidLookAlike absent
IsCandidate(doc) ==
  /\ Get(doc.analysis, "original") \in {Bool(FALSE), Undefined}
  /\ HasAnalysis(doc)
  /\ Get(doc.analysis, "isValidLookAlike") = Undefined

CandidateIds(coll) == {id \in DOMAIN coll : IsCandidate(coll[id])}

\* history: K analyzed originals have stood beside an analyzed game without
\* a verdict, and such a game has been in the store ever since
VerdictOwed(owed, coll) ==
  /\ CandidateIds(coll) # {}
  /\ owed \/ Cardinality(OriginalIds(coll) \cap AnalyzedIds(coll)) >= K

\* the document saveAnalysisToMongoDB sets
AnalysisDocument(game, analysis, pgn, original, analyzedAt) ==
  createGameAnalysisDocument(
    game,
    Obj([ finalAnalysis |-> Or(analysis.finalAnalysis, Undefined),
          detailedAnalysis |-> Or(analysis.detailedAnalysis, Undefined),
          opening |-> Or(analysis.opening, Undefined),
          concepts |->
            IF Len(analysis.concepts.a) > 0 THEN analysis.concepts ELSE Undefined,
          isRepresentative |-> analysis.isRepresentative,
          original |-> Bool(original),
          analyzedAt |-> Num(analyzedAt) ]),
    pgn)

saveAnalysisToMongoDB(coll, game, analysis, pgn, original, analyzedAt) ==
  Upsert(coll, game.id, AnalysisDocument(game, analysis, pgn, original, analyzedAt))

(***************************************************************************)
(* Workflow runs.                                                          *)
(***************************************************************************)
Replace(bag, old, new) == (bag (-) SetToBag({old})) (+) SetToBag({new})

RECURSIVE SeqToBag(_)
SeqToBag(seq) ==
  IF seq = <<>> THEN EmptyBag ELSE SetToBag({Head(seq)}) (+) SeqToBag(Tail(seq))

NoAnalysis ==
  [ finalAnalysis |-> Undefined, detailedAnalysis |-> Undefined,
    concepts |-> Arr(<<>>), opening |-> Undefined, isRepresentative |-> Undefined ]

\* a run of analyzeGameWorkflow about to execute its first step
NewTask(game) ==
  [ game |-> game, pc |-> "fetchPGN", pgn |-> Undefined, responseText |-> <<>>,
    analysis |-> NoAnalysis, original |-> FALSE, gamesCountAfter |-> 0,
    error |-> "none" ]

NoSynthesis == [overallStrengths |-> EmptyString, keyInsights |-> EmptyString]

NewSynth ==
  [ pc |-> "checkGamesWithAnalysis", count |-> 0, games |-> <<>>,
    responseText |-> <<>>, synthesis |-> NoSynthesis, result |-> "none" ]

NoLookAlike ==
  [ isValidLookAlike |-> FALSE, thematicMatch |-> EmptyString,
    matchedOriginalGameIds |-> <<>>, updatedAnalysis |-> EmptyString,
    thematicConnections |-> EmptyString ]

NewLook ==
  [ pc |-> "verifyTenGamesAnalyzed", retryCount |-> 0, count |-> 0,
    userSynthesis |-> NoDoc, originalGames |-> <<>>, nonOriginalGames |-> <<>>,
    index |-> 1, responseText |-> <<>>, lookAlikeAnalysis |-> NoLookAlike,
    results |-> <<>>, result |-> "none" ]

(***************************************************************************)
(* GET /api/games.                                                         *)
(***************************************************************************)
\* a request that starts the runs without a save
SaveSelectedMutant(coll, selected) == coll

RECURSIVE SaveSelected(_, _)
SaveSelected(coll, selected) ==
  IF selected = <<>> THEN coll
  ELSE SaveSelected(
         Upsert(coll, Head(selected).id,
                createGameAnalysisDocument(Head(selected), Undefined, Undefined)),
         Tail(selected))

\* the request, for an answer of the Lichess API among answers
Request(answers, maxRequests, maxTasks) ==
  \E raw \in answers :
    LET selected == selectedGames(raw) IN
    /\ requests < maxRequests
    /\ BagCardinality(tasks) + Len(selected) <= maxTasks
    /\ requests' = requests + 1
    /\ rawGames' = raw
    /\ games' = SaveSelected(games, selected)
    /\ tasks' = tasks (+) SeqToBag([i \in 1..Len(selected) |-> NewTask(selected[i])])
    /\ response' =
         [ success |-> TRUE,
           count |-> Len(selected),
           gamesReturned |-> Len(Slice(selected, maxReturnCount)),
           games |-> [i \in 1..Len(Slice(selected, maxReturnCount)) |-> selected[i].id] ]
    /\ verdictOwed' = VerdictOwed(verdictOwed, games')
    /\ UNCHANGED <<userAnalysis, synths, looks, profileWrites, everAnalyzed, now>>

(***************************************************************************)
(* analyzeGameWorkflow, step by step.                                      *)
(***************************************************************************)
PgnText == Text("pgn")

\* fetchPGN: every failure is thrown as a FatalError, which ends the run
FetchStatuses == {"invalid", "200", "200 empty", "404", "429", "500"}

TaskFetchPGNMutant(statuses) ==
  \E t \in BagToSet(tasks), status \in statuses :
    /\ t.pc = "fetchPGN"
    /\ tasks' = Replace(tasks, t,
         IF status = "200"
         THEN [t EXCEPT !.pc = "analyzeGameWithGemini", !.pgn = PgnText]
         ELSE [t EXCEPT !.pc = "analyzeGameWithGemini", !.error = status])
    /\ UNCHANGED <<rawGames, games, userAnalysis, synths, looks, requests,
                   response, profileWrites, everAnalyzed, verdictOwed, now>>

TaskFetchPGN(statuses) ==
  \E t \in BagToSet(tasks), status \in statuses :
    /\ t.pc = "fetchPGN"
    /\ tasks' = Replace(tasks, t,
         IF status = "200"
         THEN [t EXCEPT !.pc = "analyzeGameWithGemini", !.pgn = PgnText]
         ELSE [t EXCEPT !.pc = "failed", !.error = status])
    /\ UNCHANGED <<rawGames, games, userAnalysis, synths, looks, requests,
                   response, profileWrites, everAnalyzed, verdictOwed, now>>

\* analyzeGameWithGemini returns for every response text
TaskAnalyze(responses) ==
  \E t \in BagToSet(tasks), responseText \in responses :
    /\ t.pc = "analyzeGameWithGemini"
    /\ tasks' = Replace(tasks, t,
         [t EXCEPT !.pc = "checkGamesCount",
                   !.responseText = responseText,
                   !.analysis = analyzeGameWithGemini(responseText)])
    /\ UNCHANGED <<rawGames, games, userAnalysis, synths, looks, requests,
                   response, profileWrites, everAnalyzed, verdictOwed, now>>

\* analyzeGameWithGemini throws: no API key, or generateContent fails
TaskAnalyzeThrows ==
  \E t \in BagToSet(tasks) :
    /\ t.pc = "analyzeGameWithGemini"
    /\ tasks' = Replace(tasks, t, [t EXCEPT !.pc = "failed", !.error = "gemini"])
    /\ UNCHANGED <<rawGames, games, userAnalysis, synths, looks, requests,
                   response, profileWrites, everAnalyzed, verdictOwed, now>>

OriginalAtCountMutant(gamesCountBefore) == gamesCountBefore < K - 1

OriginalAtCount(gamesCountBefore) == gamesCountBefore < K

\* a count that includes the game of the run
TaskCheckGamesCountMutant ==
  \E t \in BagToSet(tasks) :
    /\ t.pc = "checkGamesCount"
    /\ tasks' = Replace(tasks, t,
         [t EXCEPT !.pc = "saveAnalysisToMongoDB",
                   !.original = OriginalAtCount(checkGamesCount(games) + 1)])
    /\ UNCHANGED <<rawGames, games, userAnalysis, synths, looks, requests,
                   response, profileWrites, everAnalyzed, verdictOwed, now>>

\* steps 3 and 4: gamesCountBefore and original
TaskCheckGamesCount ==
  \E t \in BagToSet(tasks) :
    /\ t.pc = "checkGamesCount"
    /\ tasks' = Replace(tasks, t,
         [t EXCEPT !.pc = "saveAnalysisToMongoDB",
                   !.original = OriginalAtCount(checkGamesCount(games))])
    /\ UNCHANGED <<rawGames, games, userAnalysis, synths, looks, requests,
                   response, profileWrites, everAnalyzed, verdictOwed, now>>

\* step 5
TaskSave ==
  \E t \in BagToSet(tasks) :
    /\ t.pc = "saveAnalysisToMongoDB"
    /\ games' = saveAnalysisToMongoDB(games, t.game, t.analysis, t.pgn, t.original, now)
    /\ now' = now + 1
    /\ everAnalyzed' = everAnalyzed \cup AnalyzedIds(games')
    /\ verdictOwed' = VerdictOwed(verdictOwed, games')
    /\ tasks' = Replace(tasks, t, [t EXCEPT !.pc = "checkGamesCountAfter"])
    /\ UNCHANGED <<rawGames, userAnalysis, synths, looks, requests, response,
                   profileWrites>>

TriggersLookAlikeMutant(original, gamesCountAfter) == gamesCountAfter >= K

TriggersLookAlike(original, gamesCountAfter) ==
  gamesCountAfter = K \/ (~original /\ gamesCountAfter > K)

\* the run after its return: the locals are gone, the return value stays
Returned(t, gamesCountAfter) ==
  [NewTask(t.game) EXCEPT !.pc = "done", !.original = t.original,
                          !.gamesCountAfter = gamesCountAfter]

\* steps 6 to 8 and the return
TaskTrigger ==
  \E t \in BagToSet(tasks) :
    LET gamesCountAfter == checkGamesCount(games) IN
    /\ t.pc = "checkGamesCountAfter"
    /\ tasks' = Replace(tasks, t, Returned(t, gamesCountAfter))
    /\ synths' = synths (+) SetToBag({NewSynth})
    /\ looks' = IF TriggersLookAlike(t.original, gamesCountAfter)
                THEN looks (+) SetToBag({NewLook})
                ELSE looks
    /\ UNCHANGED <<rawGames, games, userAnalysis, requests, response,
                   profileWrites, everAnalyzed, verdictOwed, now>>

(***************************************************************************)
(* synthesizeUserAnalysisWorkflow.                                         *)
(***************************************************************************)
IsMultipleOfThreeMutant(count) == count >= SynthesisPeriod

IsMultipleOfThree(count) ==
  count >= SynthesisPeriod /\ count % SynthesisPeriod = 0

\* step 1 and the two graceful exits
RECURSIVE SortById(_)
SortById(ids) ==
  IF ids = {} THEN <<>>
  ELSE LET first == CHOOSE id \in ids : \A other \in ids : id <= other
       IN <<first>> \o SortById(ids \ {first})

\* the documents checkGamesWithAnalysis finds, with the fields the later
\* steps read
GamesWithAnalysis(coll) ==
  LET ids == SortById(AnalyzedIds(coll)) IN
  [i \in 1..Len(ids) |->
     [ gameId |-> ids[i],
       result |-> coll[ids[i]].result,
       userRating |-> coll[ids[i]].userRating,
       opening |-> Get(coll[ids[i]].analysis, "opening"),
       concepts |-> Get(coll[ids[i]].analysis, "concepts") ]]

SynthCheck ==
  \E s \in BagToSet(synths) :
    LET gamesWithAnalysis == GamesWithAnalysis(games)
        count == Len(gamesWithAnalysis)
    IN
    /\ s.pc = "checkGamesWithAnalysis"
    /\ synths' = Replace(synths, s,
         IF count < SynthesisPeriod
         THEN [s EXCEPT !.pc = "done", !.count = count,
                        !.result = "insufficient_games"]
         ELSE IF ~IsMultipleOfThree(count)
         THEN [s EXCEPT !.pc = "done", !.count = count,
                        !.result = "not_multiple_of_three"]
         ELSE [s EXCEPT !.pc = "synthesizeUserAnalysisWithGemini",
                        !.count = count, !.games = gamesWithAnalysis])
    /\ UNCHANGED <<rawGames, games, userAnalysis, tasks, looks, requests,
                   response, profileWrites, everAnalyzed, verdictOwed, now>>

SummaryLimit == 500

\* synthesizeUserAnalysisWithGemini, from the response text on
synthesizeUserAnalysisWithGemini(responseText) ==
  IF ParseSucceeds(responseText)
  THEN LET parsedResponse == JsonParse(StripFences(responseText)) IN
       [ overallStrengths |-> Or(Get(parsedResponse, "overallStrengths"), EmptyString),
         keyInsights |-> Or(Get(parsedResponse, "keyInsights"), EmptyString) ]
  ELSE [ overallStrengths |-> EmptyString,
         keyInsights |-> Str(Slice(responseText, SummaryLimit)) ]

\* a synthesis that gives up when the response does not parse
SynthGeminiMutant(responses) ==
  \E s \in BagToSet(synths), responseText \in responses :
    /\ s.pc = "synthesizeUserAnalysisWithGemini"
    /\ synths' = Replace(synths, s,
         IF ParseSucceeds(responseText)
         THEN [s EXCEPT !.pc = "saveUserAnalysisToMongoDB",
                        !.responseText = responseText,
                        !.synthesis = synthesizeUserAnalysisWithGemini(responseText)]
         ELSE [s EXCEPT !.pc = "failed", !.games = <<>>,
                        !.responseText = responseText, !.result = "parse"])
    /\ UNCHANGED <<rawGames, games, userAnalysis, tasks, looks, requests,
                   response, profileWrites, everAnalyzed, verdictOwed, now>>

SynthGemini(responses) ==
  \E s \in BagToSet(synths), responseText \in responses :
    /\ s.pc = "synthesizeUserAnalysisWithGemini"
    /\ synths' = Replace(synths, s,
         [s EXCEPT !.pc = "saveUserAnalysisToMongoDB",
                   !.responseText = responseText,
                   !.synthesis = synthesizeUserAnalysisWithGemini(responseText)])
    /\ UNCHANGED <<rawGames, games, userAnalysis, tasks, looks, requests,
                   response, profileWrites, everAnalyzed, verdictOwed, now>>

\* a synthesis awaited by the run that started it: its failure fails the run
SynthGeminiThrowsMutant ==
  \E s \in BagToSet(synths) :
    /\ s.pc = "synthesizeUserAnalysisWithGemini"
    /\ synths' = Replace(synths, s,
         [s EXCEPT !.pc = "failed", !.games = <<>>, !.result = "gemini"])
    /\ tasks' = [t \in DOMAIN tasks |-> tasks[t]]
                  (-) SetToBag({t \in BagToSet(tasks) : t.pc = "done"})
                  (+) SetToBag({[t EXCEPT !.pc = "failed", !.error = "synthesis"] :
                                 t \in {u \in BagToSet(tasks) : u.pc = "done"}})
    /\ UNCHANGED <<rawGames, games, userAnalysis, looks, requests,
                   response, profileWrites, everAnalyzed, verdictOwed, now>>

\* no API key, or generateContent fails
SynthGeminiThrows ==
  \E s \in BagToSet(synths) :
    /\ s.pc = "synthesizeUserAnalysisWithGemini"
    /\ synths' = Replace(synths, s,
         [s EXCEPT !.pc = "failed", !.games = <<>>, !.result = "gemini"])
    /\ UNCHANGED <<rawGames, games, userAnalysis, tasks, looks, requests,
                   response, profileWrites, everAnalyzed, verdictOwed, now>>

\* a count that leaves out the last game read
CountResultMutant(gamesWithAnalysis, r) ==
  Len(FilterSeq(gamesWithAnalysis,
                {g \in Elems(gamesWithAnalysis) :
                   g.result = r /\ g # gamesWithAnalysis[Len(gamesWithAnalysis)]}))

CountResult(gamesWithAnalysis, r) ==
  Len(FilterSeq(gamesWithAnalysis, {g \in Elems(gamesWithAnalysis) : g.result = r}))

\* ToNumber of a stored rating: null counts as 0
ToNumber(v) == IF v.ty = "num" THEN v.n ELSE 0

RECURSIVE SumOf(_)
SumOf(ratings) ==
  IF ratings = <<>> THEN 0 ELSE ToNumber(Head(ratings)) + SumOf(Tail(ratings))

\* Math.round of a / b, for a >= 0 and b > 0
Round(a, b) == (2 * a + b) \div (2 * b)

MinOf(ratings) ==
  CHOOSE m \in {ToNumber(r) : r \in Elems(ratings)} :
    \A r \in Elems(ratings) : m <= ToNumber(r)

MaxOf(ratings) ==
  CHOOSE m \in {ToNumber(r) : r \in Elems(ratings)} :
    \A r \in Elems(ratings) : m >= ToNumber(r)

\* the values of a list without repetition, in the order of first occurrence
RECURSIVE Keys(_)
Keys(values) ==
  IF values = <<>> THEN <<>>
  ELSE <<Head(values)>> \o Keys(FilterSeq(Tail(values), Elems(values) \ {Head(values)}))

Occurrences(values, v) == Len(FilterSeq(values, {v}))

\* a stable sort of the keys by descending number of occurrences
RECURSIVE SortByCount(_, _)
SortByCount(keys, values) ==
  IF keys = <<>> THEN <<>>
  ELSE LET first == CHOOSE i \in 1..Len(keys) :
                      /\ \A j \in 1..Len(keys) :
                           Occurrences(values, keys[i]) >= Occurrences(values, keys[j])
                      /\ \A j \in 1..(i - 1) :
                           Occurrences(values, keys[j]) < Occurrences(values, keys[i])
       IN <<keys[first]>>
            \o SortByCount(FilterSeq(keys, Elems(keys) \ {keys[first]}), values)

\* the n most frequent values, or undefined when there is none
MostCommon(values, n) ==
  IF values = <<>> THEN Undefined
  ELSE Arr(Slice(SortByCount(Keys(values), values), n))

\* games.flatMap of analysis.concepts, and the truthy openings
RECURSIVE AllConcepts(_)
AllConcepts(gamesWithAnalysis) ==
  IF gamesWithAnalysis = <<>> THEN <<>>
  ELSE (IF Head(gamesWithAnalysis).concepts.ty = "arr"
        THEN FilterSeq(Head(gamesWithAnalysis).concepts.a,
                       {c \in Elems(Head(gamesWithAnalysis).concepts.a) : Truthy(c)})
        ELSE <<>>)
       \o AllConcepts(Tail(gamesWithAnalysis))

Openings(gamesWithAnalysis) ==
  LET truthy == FilterSeq(gamesWithAnalysis,
                          {g \in Elems(gamesWithAnalysis) : Truthy(g.opening)})
  IN [i \in 1..Len(truthy) |-> truthy[i].opening]

Ratings(gamesWithAnalysis) ==
  LET defined == FilterSeq(gamesWithAnalysis,
                           {g \in Elems(gamesWithAnalysis) : g.userRating # Undefined})
  IN [i \in 1..Len(defined) |-> defined[i].userRating]

\* the document saveUserAnalysisToMongoDB sets, as the driver writes it
UserAnalysisDocument(synthesis, gamesAnalyzed, gamesWithAnalysis) ==
  LET ratings == Ratings(gamesWithAnalysis) IN
  [ username |-> "user",
    summaryAnalysis |-> Or(synthesis.keyInsights, EmptyString),
    strengths |-> synthesis.overallStrengths,
    commonOpenings |-> Bson(MostCommon(Openings(gamesWithAnalysis), 5)),
    commonConcepts |-> Bson(MostCommon(AllConcepts(gamesWithAnalysis), 10)),
    gamesAnalyzed |-> gamesAnalyzed,
    gameIds |-> [i \in 1..Len(gamesWithAnalysis) |-> gamesWithAnalysis[i].gameId],
    wins |-> CountResult(gamesWithAnalysis, "win"),
    losses |-> CountResult(gamesWithAnalysis, "loss"),
    draws |-> CountResult(gamesWithAnalysis, "draw"),
    averageRating |->
      IF Len(ratings) > 0 THEN Num(Round(SumOf(ratings), Len(ratings))) ELSE Null,
    ratingRange |->
      IF Len(ratings) > 0
      THEN Obj([min |-> Num(MinOf(ratings)), max |-> Num(MaxOf(ratings))])
      ELSE Null ]

\* step 3 and the return
SynthSave ==
  \E s \in BagToSet(synths) :
    /\ s.pc = "saveUserAnalysisToMongoDB"
    /\ userAnalysis' = UserAnalysisDocument(s.synthesis, s.count, s.games)
    /\ profileWrites' = profileWrites \cup {s.count}
    /\ synths' = Replace(synths, s,
         [s EXCEPT !.pc = "done", !.games = <<>>, !.responseText = <<>>,
                   !.synthesis = NoSynthesis, !.result = "success"])
    /\ UNCHANGED <<rawGames, games, tasks, looks, requests, response,
                   everAnalyzed, verdictOwed, now>>

(***************************************************************************)
(* lookAlikeGamesWorkflow.                                                 *)
(***************************************************************************)
maxRetriesMutant == 5 + 1

maxRetries == 5

\* step 1: the first verifyTenGamesAnalyzed and the test of the while loop
LookVerify ==
  \E l \in BagToSet(looks) :
    LET count == checkGamesCount(games) IN
    /\ l.pc = "verifyTenGamesAnalyzed"
    /\ looks' = Replace(looks, l,
         IF count >= K
         THEN [l EXCEPT !.pc = "getUserSynthesis", !.count = count]
         ELSE IF l.retryCount < maxRetries
         THEN [l EXCEPT !.pc = "sleep", !.count = count]
         ELSE [l EXCEPT !.pc = "done", !.count = count,
                        !.result = "insufficient_games"])
    /\ UNCHANGED <<rawGames, games, userAnalysis, tasks, synths, requests,
                   response, profileWrites, everAnalyzed, verdictOwed, now>>

\* one turn of the while loop: sleep, verify again, retryCount++, and the test
LookSleepVerify ==
  \E l \in BagToSet(looks) :
    LET count == checkGamesCount(games) IN
    /\ l.pc = "sleep"
    /\ looks' = Replace(looks, l,
         IF count >= K
         THEN [l EXCEPT !.pc = "getUserSynthesis", !.count = count,
                        !.retryCount = l.retryCount + 1]
         ELSE IF l.retryCount + 1 < maxRetries
         THEN [l EXCEPT !.count = count, !.retryCount = l.retryCount + 1]
         ELSE [l EXCEPT !.pc = "done", !.count = count,
                        !.retryCount = l.retryCount + 1,
                        !.result = "insufficient_games"])
    /\ UNCHANGED <<rawGames, games, userAnalysis, tasks, synths, requests,
                   response, profileWrites, everAnalyzed, verdictOwed, now>>

\* a run that ends when the subject has no profile
LookGetUserSynthesisMutant ==
  \E l \in BagToSet(looks) :
    /\ l.pc = "getUserSynthesis"
    /\ looks' = Replace(looks, l,
         IF userAnalysis = NoDoc
         THEN [l EXCEPT !.pc = "done", !.result = "no_synthesis"]
         ELSE [l EXCEPT !.pc = "getOriginalGames", !.userSynthesis = userAnalysis])
    /\ UNCHANGED <<rawGames, games, userAnalysis, tasks, synths, requests,
                   response, profileWrites, everAnalyzed, verdictOwed, now>>

\* step 2
LookGetUserSynthesis ==
  \E l \in BagToSet(looks) :
    /\ l.pc = "getUserSynthesis"
    /\ looks' = Replace(looks, l,
         [l EXCEPT !.pc = "getOriginalGames", !.userSynthesis = userAnalysis])
    /\ UNCHANGED <<rawGames, games, userAnalysis, tasks, synths, requests,
                   response, profileWrites, everAnalyzed, verdictOwed, now>>

\* step 2, when the read of the profile throws: getUserSynthesis returns null
LookGetUserSynthesisFails ==
  \E l \in BagToSet(looks) :
    /\ l.pc = "getUserSynthesis"
    /\ looks' = Replace(looks, l,
         [l EXCEPT !.pc = "getOriginalGames", !.userSynthesis = NoDoc])
    /\ UNCHANGED <<rawGames, games, userAnalysis, tasks, synths, requests,
                   response, profileWrites, everAnalyzed, verdictOwed, now>>

AnalyzedAt(coll, id) == Get(coll[id].analysis, "analyzedAt").n

\* the ids of a set of documents, sorted by analysis.analyzedAt ascending
RECURSIVE SortByAnalyzedAt(_, _)
SortByAnalyzedAt(coll, ids) ==
  IF ids = {} THEN <<>>
  ELSE LET first == CHOOSE id \in ids :
                      \A other \in ids :
                        \/ AnalyzedAt(coll, id) < AnalyzedAt(coll, other)
                        \/ AnalyzedAt(coll, id) = AnalyzedAt(coll, other) /\ id <= other
       IN <<first>> \o SortByAnalyzedAt(coll, ids \ {first})

getOriginalGames(coll) ==
  Slice(SortByAnalyzedAt(coll, OriginalIds(coll) \cap AnalyzedIds(coll)), K)

\* a run that goes on with the original games it found, however few
LookGetOriginalGamesMutant ==
  \E l \in BagToSet(looks) :
    /\ l.pc = "getOriginalGames"
    /\ looks' = Replace(looks, l,
         [l EXCEPT !.pc = "getNonOriginalGames",
                   !.originalGames = getOriginalGames(games)])
    /\ UNCHANGED <<rawGames, games, userAnalysis, tasks, synths, requests,
                   response, profileWrites, everAnalyzed, verdictOwed, now>>

\* step 3 and its exit
LookGetOriginalGames ==
  \E l \in BagToSet(looks) :
    LET originalGames == getOriginalGames(games) IN
    /\ l.pc = "getOriginalGames"
    /\ looks' = Replace(looks, l,
         IF Len(originalGames) < K
         THEN [l EXCEPT !.pc = "done", !.userSynthesis = NoDoc,
                        !.result = "insufficient_original_games"]
         ELSE [l EXCEPT !.pc = "getNonOriginalGames",
                        !.originalGames = originalGames])
    /\ UNCHANGED <<rawGames, games, userAnalysis, tasks, synths, requests,
                   response, profileWrites, everAnalyzed, verdictOwed, now>>

getNonOriginalGames(coll) ==
  LET ids == SortById(CandidateIds(coll)) IN
  [i \in 1..Len(ids) |->
     [gameId |-> ids[i], finalAnalysis |-> Get(coll[ids[i]].analysis, "finalAnalysis")]]

\* step 4 and its exit
LookGetNonOriginalGames ==
  \E l \in BagToSet(looks) :
    LET nonOriginalGames == getNonOriginalGames(games) IN
    /\ l.pc = "getNonOriginalGames"
    /\ looks' = Replace(looks, l,
         IF Len(nonOriginalGames) = 0
         THEN [l EXCEPT !.pc = "done", !.userSynthesis = NoDoc,
                        !.originalGames = <<>>, !.result = "success"]
         ELSE [l EXCEPT !.pc = "analyzeLookAlikeGame",
                        !.nonOriginalGames = nonOriginalGames])
    /\ UNCHANGED <<rawGames, games, userAnalysis, tasks, synths, requests,
                   response, profileWrites, everAnalyzed, verdictOwed, now>>

OperationalFailure == Text("Unable to analyze game due to missing data or API error")

getDefaultLookAlikeResponse(nonOriginalGame) ==
  [ isValidLookAlike |-> FALSE,
    thematicMatch |-> OperationalFailure,
    matchedOriginalGameIds |-> <<>>,
    updatedAnalysis |-> Or(nonOriginalGame.finalAnalysis, EmptyString),
    thematicConnections |-> EmptyString ]

IsNonEmptyString(v) == v.ty = "str" /\ v.s # <<>>

StringOrEmpty(v) == IF v.ty = "str" THEN v ELSE EmptyString

NonEmptyStrings(a) == FilterSeq(a, {v \in Elems(a) : IsNonEmptyString(v)})

\* analyzeLookAlikeGame, from the response text on
analyzeLookAlikeGame(nonOriginalGame, responseText) ==
  IF Trim(responseText) = <<>> \/ ~JsonParses(StripFences(responseText))
  THEN getDefaultLookAlikeResponse(nonOriginalGame)
  ELSE LET parsedResponse == JsonParse(StripFences(responseText)) IN
       [ isValidLookAlike |-> Get(parsedResponse, "isValidLookAlike") = Bool(TRUE),
         thematicMatch |-> StringOrEmpty(Get(parsedResponse, "thematicMatch")),
         matchedOriginalGameIds |->
           IF Get(parsedResponse, "matchedOriginalGameIds").ty = "arr"
           THEN NonEmptyStrings(Get(parsedResponse, "matchedOriginalGameIds").a)
           ELSE <<>>,
         updatedAnalysis |->
           IF IsNonEmptyString(Get(parsedResponse, "updatedAnalysis"))
           THEN Get(parsedResponse, "updatedAnalysis")
           ELSE Or(nonOriginalGame.finalAnalysis, EmptyString),
         thematicConnections |->
           StringOrEmpty(Get(parsedResponse, "thematicConnections")) ]

\* step 5, first half: the oracle answers
LookAnalyze(responses) ==
  \E l \in BagToSet(looks), responseText \in responses :
    /\ l.pc = "analyzeLookAlikeGame"
    /\ looks' = Replace(looks, l,
         [l EXCEPT !.pc = "updateGameWithLookAlike",
                   !.responseText = responseText,
                   !.lookAlikeAnalysis =
                     analyzeLookAlikeGame(l.nonOriginalGames[l.index], responseText)])
    /\ UNCHANGED <<rawGames, games, userAnalysis, tasks, synths, requests,
                   response, profileWrites, everAnalyzed, verdictOwed, now>>

\* step 5, first half: no API key, generateContent throws, no response object
LookAnalyzeFails ==
  \E l \in BagToSet(looks) :
    /\ l.pc = "analyzeLookAlikeGame"
    /\ looks' = Replace(looks, l,
         [l EXCEPT !.pc = "updateGameWithLookAlike",
                   !.lookAlikeAnalysis =
                     getDefaultLookAlikeResponse(l.nonOriginalGames[l.index])])
    /\ UNCHANGED <<rawGames, games, userAnalysis, tasks, synths, requests,
                   response, profileWrites, everAnalyzed, verdictOwed, now>>

\* the update matches a document, and the dotted $set can be applied to it
CanUpdate(coll, gameId) ==
  gameId \in DOMAIN coll /\ coll[gameId].analysis.ty = "obj"

\* the fields updateGameWithLookAlike sets inside analysis
LookAlikeFields(lookAlikeAnalysis) ==
  LET verdict ==
        [ isValidLookAlike |-> Bool(lookAlikeAnalysis.isValidLookAlike),
          thematicMatch |-> StringOrEmpty(lookAlikeAnalysis.thematicMatch),
          matchedOriginalGameIds |->
            Arr(NonEmptyStrings(lookAlikeAnalysis.matchedOriginalGameIds)),
          thematicConnections |->
            StringOrEmpty(lookAlikeAnalysis.thematicConnections) ]
  IN IF lookAlikeAnalysis.isValidLookAlike
        /\ IsNonEmptyString(lookAlikeAnalysis.updatedAnalysis)
     THEN [finalAnalysis |-> lookAlikeAnalysis.updatedAnalysis] @@ verdict
     ELSE verdict

\* an update that sets the analysis as a whole
updateGameWithLookAlikeMutant(coll, gameId, lookAlikeAnalysis) ==
  IF CanUpdate(coll, gameId)
  THEN [coll EXCEPT ![gameId].analysis = Obj(LookAlikeFields(lookAlikeAnalysis))]
  ELSE coll

updateGameWithLookAlike(coll, gameId, lookAlikeAnalysis) ==
  IF CanUpdate(coll, gameId)
  THEN [coll EXCEPT ![gameId].analysis =
          Obj(LookAlikeFields(lookAlikeAnalysis) @@ coll[gameId].analysis.o)]
  ELSE coll

\* a loop that stops at the first candidate whose update fails
LookUpdateMutant ==
  \E l \in BagToSet(looks) :
    LET game == l.nonOriginalGames[l.index]
        success == CanUpdate(games, game.gameId)
        results == Append(l.results,
                     [ gameId |-> game.gameId, success |-> success,
                       isValidLookAlike |->
                         success /\ l.lookAlikeAnalysis.isValidLookAlike ])
    IN
    /\ l.pc = "updateGameWithLookAlike"
    /\ games' = updateGameWithLookAlike(games, game.gameId, l.lookAlikeAnalysis)
    /\ looks' = Replace(looks, l,
         IF ~success
         THEN [l EXCEPT !.pc = "done", !.responseText = <<>>,
                        !.lookAlikeAnalysis = NoLookAlike,
                        !.userSynthesis = NoDoc, !.result = "failed"]
         ELSE IF l.index < Len(l.nonOriginalGames)
         THEN [l EXCEPT !.pc = "analyzeLookAlikeGame", !.index = l.index + 1,
                        !.responseText = <<>>,
                        !.lookAlikeAnalysis = NoLookAlike, !.results = results]
         ELSE [l EXCEPT !.pc = "done", !.responseText = <<>>,
                        !.lookAlikeAnalysis = NoLookAlike,
                        !.results = results, !.userSynthesis = NoDoc,
                        !.result = "success"])
    /\ verdictOwed' = VerdictOwed(verdictOwed, games')
    /\ UNCHANGED <<rawGames, userAnalysis, tasks, synths, requests, response,
                   profileWrites, everAnalyzed, now>>

\* step 5, second half: the update, the result entry, and the next candidate
LookUpdate ==
  \E l \in BagToSet(looks) :
    LET game == l.nonOriginalGames[l.index]
        success == CanUpdate(games, game.gameId)
        results == Append(l.results,
                     [ gameId |-> game.gameId, success |-> success,
                       isValidLookAlike |->
                         success /\ l.lookAlikeAnalysis.isValidLookAlike ])
    IN
    /\ l.pc = "updateGameWithLookAlike"
    /\ games' = updateGameWithLookAlike(games, game.gameId, l.lookAlikeAnalysis)
    /\ looks' = Replace(looks, l,
         IF l.index < Len(l.nonOriginalGames)
         THEN [l EXCEPT !.pc = "analyzeLookAlikeGame", !.index = l.index + 1,
                        !.responseText = <<>>,
                        !.lookAlikeAnalysis = NoLookAlike, !.results = results]
         ELSE [l EXCEPT !.pc = "done", !.responseText = <<>>,
                        !.lookAlikeAnalysis = NoLookAlike,
                        !.results = results, !.userSynthesis = NoDoc,
                        !.result = "success"])
    /\ verdictOwed' = VerdictOwed(verdictOwed, games')
    /\ UNCHANGED <<rawGames, userAnalysis, tasks, synths, requests, response,
                   profileWrites, everAnalyzed, now>>

(***************************************************************************)
(* The pipeline: a store that earlier, serial runs left with some analyzed *)
(* games, and requests for games the store has not seen.                   *)
(***************************************************************************)
GoodResponse ==
  <<JsonText(Obj([ isRepresentative |-> Bool(TRUE),
                   detailedAnalysis |-> Text("detail"),
                   finalAnalysis |-> Text("summary"),
                   opening |-> Text("opening"),
                   concepts |-> Arr(<<Text("c1"), Text("c2")>>) ]))>>

ProseResponse == <<Word("prose")>>

EmptyResponse == <<>>

PipelineResponses == {GoodResponse, EmptyResponse}

PipelineStatuses == {"200", "404"}

SynthesisResponses ==
  { <<JsonText(Obj([ overallStrengths |-> Text("strengths"),
                     keyInsights |-> Text("insights") ]))>>,
    ProseResponse }

IdText(id) == Str(<<[t |-> "id", id |-> id]>>)

LookAlikeResponses ==
  { <<JsonText(Obj([ isValidLookAlike |-> Bool(TRUE),
                     thematicMatch |-> Text("match"),
                     matchedOriginalGameIds |-> Arr(<<IdText(1)>>),
                     updatedAnalysis |-> Text("rewrite"),
                     thematicConnections |-> Text("themes") ]))>>,
    <<JsonText(Obj([ isValidLookAlike |-> Bool(TRUE),
                     thematicMatch |-> Text("match"),
                     matchedOriginalGameIds |-> Arr(<<IdText(2)>>) ]))>>,
    <<JsonText(Obj([ isValidLookAlike |-> Bool(FALSE),
                     thematicMatch |-> Text("no match"),
                     matchedOriginalGameIds |-> Arr(<<>>) ]))>>,
    <<JsonText(Obj([ isValidLookAlike |-> Bool(FALSE),
                     thematicMatch |-> Text("no match"),
                     matchedOriginalGameIds |-> Arr(<<IdText(K + 1)>>) ]))>>,
    ProseResponse }

\* the game with this id as the Lichess API returns it: the user plays white,
\* and wins, loses and draws in turn
RawGame(id) ==
  [ id |-> id, userColor |-> "white",
    status |-> IF id % 3 = 0 THEN "draw" ELSE "mate",
    winner |-> IF id % 3 = 0 THEN "none" ELSE IF id % 3 = 1 THEN "white" ELSE "black",
    rating |-> Num(1500 + 10 * (id % 4)),
    duration |-> 1, ratingDiff |-> 0 ]

\* the store after serial runs of the pipeline for the games 1..pre, pre <= K
SerialGames(pre) ==
  [id \in 1..pre |->
     AnalysisDocument(ProcessGame(RawGame(id)), analyzeGameWithGemini(GoodResponse),
                      PgnText, TRUE, id)]

LastMultiple(pre) == pre - (pre % SynthesisPeriod)

SerialUserAnalysis(pre) ==
  IF pre < SynthesisPeriod THEN NoDoc
  ELSE UserAnalysisDocument(
         synthesizeUserAnalysisWithGemini(ProseResponse), LastMultiple(pre),
         GamesWithAnalysis(SerialGames(LastMultiple(pre))))

PreAnalyzedChoices == {1, SynthesisPeriod - 1, K - 1, K}

\* the games the provider may return: game K and the NumNew games after it
Universe == K..(K + NumNew)

\* an answer of the provider: some of these games, by ascending id
PipelineAnswers ==
  {[i \in 1..Len(SortById(ids)) |-> RawGame(SortById(ids)[i])] :
     ids \in (SUBSET Universe) \ {{}}}

NoResponse == [success |-> FALSE, count |-> 0, gamesReturned |-> 0, games |-> <<>>]

Init ==
  \E pre \in PreAnalyzedChoices :
    /\ rawGames = <<>>
    /\ games = SerialGames(pre)
    /\ userAnalysis = SerialUserAnalysis(pre)
    /\ profileWrites = {m \in 1..pre : IsMultipleOfThree(m)}
    /\ everAnalyzed = 1..pre
    /\ verdictOwed = FALSE
    /\ now = pre + 1
    /\ tasks = EmptyBag
    /\ synths = EmptyBag
    /\ looks = EmptyBag
    /\ requests = 0
    /\ response = NoResponse

TaskNext ==
  \/ TaskFetchPGN(PipelineStatuses)
  \/ TaskAnalyze(PipelineResponses)
  \/ TaskAnalyzeThrows
  \/ TaskCheckGamesCount
  \/ TaskSave
  \/ TaskTrigger

SynthNext ==
  \/ SynthCheck
  \/ SynthGemini(SynthesisResponses)
  \/ SynthGeminiThrows
  \/ SynthSave

LookNext ==
  \/ LookVerify
  \/ LookSleepVerify
  \/ LookGetUserSynthesis
  \/ LookGetUserSynthesisFails
  \/ LookGetOriginalGames
  \/ LookGetNonOriginalGames
  \/ LookAnalyze(LookAlikeResponses)
  \/ LookAnalyzeFails
  \/ LookUpdate

Next ==
  \/ Request(PipelineAnswers, MaxRequests, MaxTasks)
  \/ TaskNext
  \/ SynthNext
  \/ LookNext

Spec == Init /\ [][Next]_vars

\* every started workflow run is executed to its end
FairSpec == Spec /\ WF_vars(TaskNext \/ SynthNext \/ LookNext)

(***************************************************************************)
(* One run of analyzeGameWorkflow, for every fetch status and every        *)
(* response text of a family.                                              *)
(***************************************************************************)
\* an object with the properties whose value is not Undefined
ObjectOf(values) ==
  Obj([f \in {g \in DOMAIN values : values[g] # Undefined} |-> values[f]])

SixTags ==
  Arr(<<Text("c1"), Text("c2"), Text("c3"), Text("c4"), Text("c5"), Text("c6")>>)

ResponseObjects ==
  { ObjectOf(values) : values \in
      [ finalAnalysis : {Undefined, EmptyString, Text("summary")},
        detailedAnalysis : {Undefined, Text("detail")},
        concepts : {Undefined, Text("tags"), Arr(<<>>), SixTags},
        opening : {Undefined, Text("opening")},
        isRepresentative :
          {Undefined, Bool(TRUE), Bool(FALSE), Null, Num(0), Text("no")} ] }

ResponseValues == ResponseObjects \cup {Null, Text("scalar")}

\* a value as the oracle may write it: bare, padded, fenced, or after prose
Writings(v) ==
  { <<JsonText(v)>>,
    <<Ws, JsonText(v), Ws>>,
    <<FenceJson, Ws, JsonText(v), Ws, Fence>>,
    <<Fence, JsonText(v), Fence, Ws>>,
    <<FenceJson, JsonText(v)>>,
    <<Word("Here is the analysis"), JsonText(v)>> }

TaskResponses ==
  UNION {Writings(v) : v \in ResponseValues}
    \cup {EmptyResponse, <<Ws>>, ProseResponse, <<FenceJson, Word("prose"), Fence>>}

TaskInit ==
  /\ rawGames = <<RawGame(K)>>
  /\ games = SaveSelected(<<>>, selectedGames(<<RawGame(K)>>))
  /\ tasks = SetToBag({NewTask(ProcessGame(RawGame(K)))})
  /\ userAnalysis = NoDoc
  /\ profileWrites = {}
  /\ everAnalyzed = {}
  /\ verdictOwed = FALSE
  /\ now = 1
  /\ synths = EmptyBag
  /\ looks = EmptyBag
  /\ requests = 1
  /\ response = [ success |-> TRUE, count |-> 1, gamesReturned |-> 1, games |-> <<K>> ]

TaskSpecNext ==
  \/ TaskFetchPGN(FetchStatuses)
  \/ TaskAnalyze(TaskResponses)
  \/ TaskAnalyzeThrows
  \/ TaskCheckGamesCount
  \/ TaskSave
  \/ TaskTrigger
  \/ SynthCheck

TaskSpec == TaskInit /\ [][TaskSpecNext]_vars

(***************************************************************************)
(* One request on an empty store, for every answer of a family.            *)
(***************************************************************************)
ResultCounts == {0, 1, 3, winsQuota, 12, MaxPerResult}

\* the i-th game of an answer with w wins, l losses, d draws and x games the
\* user did not play, in this order
RawKind(i, w, l, d) ==
  IF i <= w THEN "win" ELSE IF i <= w + l THEN "loss"
  ELSE IF i <= w + l + d THEN "draw" ELSE "none"

SelectorGame(i, kind, layout) ==
  LET userColor == IF kind = "none" THEN "none"
                   ELSE IF i % 2 = 0 THEN "white" ELSE "black"
      opponent == IF userColor = "white" THEN "black" ELSE "white"
  IN
  [ id |-> i, userColor |-> userColor,
    rating |-> Num(1500),
    status |-> IF kind = "draw" /\ i % 2 = 0 THEN "draw" ELSE "mate",
    winner |-> IF kind = "win" THEN userColor
               ELSE IF kind = "loss" THEN opponent
               ELSE IF kind = "none" THEN "white"
               ELSE "none",
    duration |-> IF layout = 1 THEN i ELSE IF layout = 2 THEN 1 ELSE (i * 7) % 5,
    ratingDiff |-> IF layout = 2 THEN i % 3 ELSE (i * 3) % 4 ]

SelectorAnswer(w, l, d, x, layout) ==
  [i \in 1..(w + l + d + x) |-> SelectorGame(i, RawKind(i, w, l, d), layout)]

DistinctAnswers ==
  { SelectorAnswer(w, l, d, x, layout) :
      w \in ResultCounts, l \in ResultCounts, d \in ResultCounts,
      x \in {0, 1}, layout \in {1, 2, 3} }

\* answers in which the line of the first game comes twice
RepeatedAnswers ==
  { SelectorAnswer(w, l, d, 0, 1) \o <<SelectorGame(1, RawKind(1, w, l, d), 1)>> :
      w \in ResultCounts \ {0}, l \in ResultCounts, d \in ResultCounts }

SelectorAnswers == DistinctAnswers \cup RepeatedAnswers

SelectorInit ==
  /\ rawGames = <<>>
  /\ games = <<>>
  /\ tasks = EmptyBag
  /\ userAnalysis = NoDoc
  /\ profileWrites = {}
  /\ everAnalyzed = {}
  /\ verdictOwed = FALSE
  /\ now = 1
  /\ synths = EmptyBag
  /\ looks = EmptyBag
  /\ requests = 0
  /\ response = NoResponse

SelectorNext == Request(SelectorAnswers, 1, targetCount)

SelectorSpec == SelectorInit /\ [][SelectorNext]_vars

(***************************************************************************)
(* The analysis runs of one request for games the store does not hold,     *)
(* executed so that no run reads the count while another run is between    *)
(* its read and its save.                                                  *)
(***************************************************************************)
NewGameAnswers ==
  {raw \in PipelineAnswers : \A i \in 1..Len(raw) : raw[i].id \notin DOMAIN games}

SerialCheckGamesCount ==
  /\ \A t \in BagToSet(tasks) : t.pc # "saveAnalysisToMongoDB"
  /\ TaskCheckGamesCount

SerialNext ==
  \/ Request(NewGameAnswers, 1, MaxTasks)
  \/ TaskFetchPGN(PipelineStatuses)
  \/ TaskAnalyze(PipelineResponses)
  \/ TaskAnalyzeThrows
  \/ SerialCheckGamesCount
  \/ TaskSave
  \/ TaskTrigger

SerialSpec == Init /\ [][SerialNext]_vars

(***************************************************************************)
(* A synthesis run that overlaps later analysis runs: the store after      *)
(* serial runs for the games 1 .. 2 * SynthesisPeriod - 1, while the       *)
(* synthesis run that the run for game SynthesisPeriod started has read    *)
(* its count and waits for the oracle, and one request for a new game.     *)
(***************************************************************************)
OverlapInit ==
  /\ rawGames = <<>>
  /\ games = SerialGames(2 * SynthesisPeriod - 1)
  /\ userAnalysis = NoDoc
  /\ profileWrites = {}
  /\ everAnalyzed = 1..(2 * SynthesisPeriod - 1)
  /\ verdictOwed = FALSE
  /\ now = 2 * SynthesisPeriod
  /\ tasks = EmptyBag
  /\ synths = SetToBag({[NewSynth EXCEPT
                           !.pc = "synthesizeUserAnalysisWithGemini",
                           !.count = SynthesisPeriod,
                           !.games = GamesWithAnalysis(SerialGames(SynthesisPeriod))]})
  /\ looks = EmptyBag
  /\ requests = 0
  /\ response = NoResponse

OverlapSpec ==
  OverlapInit /\ [][Request(NewGameAnswers, 1, 1) \/ TaskNext \/ SynthNext]_vars

(***************************************************************************)
(* One run of synthesizeUserAnalysisWorkflow, for every response text of a *)
(* family, over stores of analyzed games.                                  *)
(***************************************************************************)
MaxAnalyzed == 12

\* the response of the oracle for the game: JSON with an opening and tags,
\* JSON with another opening, or prose
GameResponse(id) ==
  IF id % 3 = 1 THEN GoodResponse
  ELSE IF id % 3 = 2
  THEN <<JsonText(Obj([ finalAnalysis |-> Text("summary"),
                        opening |-> Text("other"),
                        concepts |-> Arr(<<Text("c2"), Text("c3")>>) ]))>>
  ELSE ProseResponse

\* the store after serial runs for the games 1..n
AnalyzedGames(n) ==
  [id \in 1..n |->
     AnalysisDocument(ProcessGame(RawGame(id)), analyzeGameWithGemini(GameResponse(id)),
                      PgnText, id <= K, id)]

SynthesisObjects ==
  { ObjectOf(values) : values \in
      [ overallStrengths : {Undefined, Text("strengths")},
        keyInsights : {Undefined, EmptyString, Text("insights")} ] }

\* a text longer than the summary may be
LongProse == [i \in 1..(SummaryLimit + 1) |-> Word("prose")]

SynthResponses ==
  UNION {Writings(v) : v \in SynthesisObjects \cup {Null, Text("scalar")}}
    \cup {EmptyResponse, <<Ws>>, ProseResponse, <<FenceJson, Word("prose"), Fence>>,
          LongProse}

SynthInit ==
  \E n \in 1..MaxAnalyzed :
    /\ rawGames = <<>>
    /\ games = AnalyzedGames(n)
    /\ userAnalysis = NoDoc
    /\ profileWrites = {}
    /\ everAnalyzed = 1..n
    /\ verdictOwed = FALSE
    /\ now = n + 1
    /\ tasks = EmptyBag
    /\ synths = SetToBag({NewSynth})
    /\ looks = EmptyBag
    /\ requests = 0
    /\ response = NoResponse

SynthSpecNext ==
  \/ SynthCheck
  \/ SynthGemini(SynthResponses)
  \/ SynthGeminiThrows
  \/ SynthSave

SynthSpec == SynthInit /\ [][SynthSpecNext]_vars

(***************************************************************************)
(* One look-alike run over a store with K original games and some          *)
(* candidates, beside one request that selects games of the store again.   *)
(***************************************************************************)
NumCandidates == 2

\* the store after serial runs for the games 1..K and, with the gate met,
\* for the games after them, whose look-alike run is the one starting
CandidateGames ==
  [id \in 1..(K + NumCandidates) |->
     AnalysisDocument(ProcessGame(RawGame(id)), analyzeGameWithGemini(GoodResponse),
                      PgnText, id <= K, id)]

\* an answer of the provider: some of the games K .. K + NumCandidates
LookAnswers ==
  {[i \in 1..Len(SortById(ids)) |-> RawGame(SortById(ids)[i])] :
     ids \in (SUBSET (K..(K + NumCandidates))) \ {{}}}

LookInit ==
  /\ rawGames = <<>>
  /\ games = CandidateGames
  /\ \/ /\ userAnalysis = SerialUserAnalysis(K + NumCandidates)
        /\ profileWrites = {m \in 1..(K + NumCandidates) : IsMultipleOfThree(m)}
     \/ /\ userAnalysis = NoDoc
        /\ profileWrites = {}
  /\ everAnalyzed = 1..(K + NumCandidates)
  /\ verdictOwed = TRUE
  /\ now = K + NumCandidates + 1
  /\ tasks = EmptyBag
  /\ synths = EmptyBag
  /\ looks = SetToBag({NewLook})
  /\ requests = 0
  /\ response = NoResponse

LookSpecNext ==
  \/ Request(LookAnswers, 1, NumCandidates + 1)
  \/ LookVerify
  \/ LookSleepVerify
  \/ LookGetUserSynthesis
  \/ LookGetUserSynthesisFails
  \/ LookGetOriginalGames
  \/ LookGetNonOriginalGames
  \/ LookAnalyze(LookAlikeResponses)
  \/ LookAnalyzeFails
  \/ LookUpdate

LookSpec == LookInit /\ [][LookSpecNext]_vars

(***************************************************************************)
(* The writes of the request, the analysis run, the synthesis run and the  *)
(* look-alike run, on collections held as bags of documents that carry     *)
(* their key fields, for several spellings of two user names and the games *)
(* 1 .. SynthesisPeriod of each, the fewest that let a profile be written. *)
(***************************************************************************)
\* username.toLowerCase() on the names of this specification
toLowerCase(username) == IF username = "Alice" THEN "alice" ELSE username

\* a write that inserts whatever the collection holds
updateOneMutant(coll, filter, fields, upsert) ==
  coll (+) SetToBag({fields @@ filter})

\* collection.updateOne(filter, {$set: fields}, {upsert: upsert})
updateOne(coll, filter, fields, upsert) ==
  LET matched ==
        {doc \in BagToSet(coll) : \A f \in DOMAIN filter : doc[f] = filter[f]}
  IN IF matched # {}
     THEN LET doc == CHOOSE d \in matched : TRUE
          IN Replace(coll, doc, fields @@ doc)
     ELSE IF upsert THEN coll (+) SetToBag({fields @@ filter}) ELSE coll

\* GET /api/games for an answer of one game: the save of the selected game
StoreSelected ==
  \E username \in {"Alice", "alice", "bob"}, gameId \in 1..SynthesisPeriod :
    LET key == [gameId |-> gameId, username |-> toLowerCase(username)] IN
    /\ games' = updateOne(games, key,
         key @@ createGameAnalysisDocument(ProcessGame(RawGame(gameId)),
                                           Undefined, Undefined),
         TRUE)
    /\ UNCHANGED <<rawGames, userAnalysis, tasks, synths, looks, requests,
                   response, profileWrites, everAnalyzed, verdictOwed, now>>

\* saveAnalysisToMongoDB of a run for a game a request has stored
StoreAnalysis ==
  \E username \in {"Alice", "alice", "bob"}, gameId \in 1..SynthesisPeriod :
    LET key == [gameId |-> gameId, username |-> toLowerCase(username)]
        stored == {doc \in BagToSet(games) : doc.username = key.username}
        gamesCountBefore == Cardinality({doc \in stored : HasAnalysis(doc)})
    IN
    /\ \E doc \in stored : doc.gameId = gameId
    /\ games' = updateOne(games, key,
         key @@ AnalysisDocument(ProcessGame(RawGame(gameId)),
                                 analyzeGameWithGemini(GoodResponse), PgnText,
                                 OriginalAtCount(gamesCountBefore), gameId),
         TRUE)
    /\ UNCHANGED <<rawGames, userAnalysis, tasks, synths, looks, requests,
                   response, profileWrites, everAnalyzed, verdictOwed, now>>

\* updateGameWithLookAlike with the verdict of a failed judgement
StoreLookAlike ==
  \E username \in {"Alice", "alice", "bob"}, doc \in BagToSet(games) :
    /\ doc.username = toLowerCase(username)
    /\ doc.analysis.ty = "obj"
    /\ games' = updateOne(games,
         [gameId |-> doc.gameId, username |-> toLowerCase(username)],
         [analysis |->
            Obj(LookAlikeFields(getDefaultLookAlikeResponse(
                  [finalAnalysis |-> Get(doc.analysis, "finalAnalysis")]))
                @@ doc.analysis.o)],
         FALSE)
    /\ UNCHANGED <<rawGames, userAnalysis, tasks, synths, looks, requests,
                   response, profileWrites, everAnalyzed, verdictOwed, now>>

\* saveUserAnalysisToMongoDB of a run that found the gate met
StoreUserAnalysis ==
  \E username \in {"Alice", "alice", "bob"},
     responseText \in SynthesisResponses :
    LET stored == {doc \in BagToSet(games) : doc.username = toLowerCase(username)}
        coll == [id \in {doc.gameId : doc \in stored} |->
                   CHOOSE doc \in stored : doc.gameId = id]
    IN
    /\ checkGamesCount(coll) > 0
    /\ IsMultipleOfThree(checkGamesCount(coll))
    /\ userAnalysis' = updateOne(userAnalysis,
         [username |-> toLowerCase(username)],
         [ UserAnalysisDocument(synthesizeUserAnalysisWithGemini(responseText),
                                checkGamesCount(coll), GamesWithAnalysis(coll))
           EXCEPT !.username = toLowerCase(username) ],
         TRUE)
    /\ UNCHANGED <<rawGames, games, tasks, synths, looks, requests, response,
                   profileWrites, everAnalyzed, verdictOwed, now>>

StoreInit ==
  /\ rawGames = <<>>
  /\ games = EmptyBag
  /\ userAnalysis = EmptyBag
  /\ profileWrites = {}
  /\ everAnalyzed = {}
  /\ verdictOwed = FALSE
  /\ now = 1
  /\ tasks = EmptyBag
  /\ synths = EmptyBag
  /\ looks = EmptyBag
  /\ requests = 0
  /\ response = NoResponse

StoreSpec ==
  StoreInit
    /\ [][StoreSelected \/ StoreAnalysis \/ StoreLookAlike \/ StoreUserAnalysis]_vars

(***************************************************************************)
(* Properties of one analysis run (TaskSpec).                              *)
(***************************************************************************)
\* the runs that hold the analysis of their response
Analyzing ==
  {t \in BagToSet(tasks) :
     t.pc \in {"checkGamesCount", "saveAnalysisToMongoDB", "checkGamesCountAfter"}}

\* the response text is not the writing of a JSON value, fenced or not
NotJson(responseText) == ~JsonParses(StripFences(responseText))

\* C8: a run whose oracle response is not JSON does not fail, and the game
\* it has saved holds a non-null finalAnalysis, so that it counts as analyzed.
C8_NonJsonCountsAsAnalyzed ==
  \A t \in Analyzing :
    (NotJson(t.responseText) /\ t.pc = "checkGamesCountAfter") =>
      /\ HasAnalysis(games[t.game.id])
      /\ checkGamesCount(games) = 1

\* C9: when the response does not parse, the analysis is exactly the raw
\* text as finalAnalysis, no concepts, no opening and isRepresentative true;
\* when it parses to an object without isRepresentative, isRepresentative
\* is true.
C9_ParseFallback ==
  \A t \in Analyzing :
    /\ NotJson(t.responseText) =>
         /\ t.analysis.finalAnalysis = Str(t.responseText)
         /\ t.analysis.concepts = Arr(<<>>)
         /\ t.analysis.opening = Null
         /\ t.analysis.isRepresentative = Bool(TRUE)
    /\ ( /\ ~NotJson(t.responseText)
         /\ JsonParse(StripFences(t.responseText)).ty = "obj"
         /\ "isRepresentative"
              \notin DOMAIN JsonParse(StripFences(t.responseText)).o )
       => t.analysis.isRepresentative = Bool(TRUE)

\* a run holds the fallback analysis of a prose response
C9_Witness ==
  \E t \in Analyzing :
    /\ t.responseText = ProseResponse
    /\ t.analysis.finalAnalysis = Str(ProseResponse)

(***************************************************************************)
(* Properties of the selection (SelectorSpec).                             *)
(***************************************************************************)
\* the result of a raw game for the user, "none" when the user did not play
RawResult(game) ==
  IF game.userColor = "none" THEN "none"
  ELSE IF game.status = "draw" \/ game.winner = "none" THEN "draw"
  ELSE IF game.winner = game.userColor THEN "win"
  ELSE "loss"

RawCount(r) ==
  Cardinality({i \in 1..Len(rawGames) : RawResult(rawGames[i]) = r})

\* the selected games are the games a run was started for
SelectedCount(r) ==
  BagCardinality([t \in {u \in BagToSet(tasks) : u.game.result = r} |-> tasks[t]])

AtLeastTenOfEach ==
  /\ requests = 1
  /\ RawCount("win") >= 10 /\ RawCount("loss") >= 10 /\ RawCount("draw") >= 10

\* C10: from a raw list with at least 10 wins, 10 losses and 10 draws the
\* selection is exactly 10 wins, 10 losses and 5 draws, 25 games.
C10_QuotasMet ==
  AtLeastTenOfEach =>
    /\ SelectedCount("win") = 10
    /\ SelectedCount("loss") = 10
    /\ SelectedCount("draw") = 5
    /\ BagCardinality(tasks) = 25
    /\ response.count = 25

\* a selection from more than 10 wins, exactly 10 losses and more draws
C10_Witness ==
  /\ AtLeastTenOfEach
  /\ RawCount("win") > 10 /\ RawCount("loss") = 10 /\ RawCount("draw") > 10
  /\ BagCardinality(tasks) = 25

(***************************************************************************)
(* Properties of the pipeline (Spec, FairSpec).                            *)
(***************************************************************************)
AnalyzedOriginals == OriginalIds(games) \cap AnalyzedIds(games)

\* C1: under every interleaving of the analysis runs, the number of games
\* stored with analysis.original true never exceeds 10, and once 10 games
\* are analyzed it is exactly 10.  Stated for the runs of one request, so
\* that no later request has touched the store.
C1_AtMostTenOriginals ==
  requests <= 1 =>
    /\ Cardinality(OriginalIds(games)) <= 10
    /\ checkGamesCount(games) >= 10 => Cardinality(OriginalIds(games)) = 10

\* every started run has returned, none has failed, no run has a step left
Finished ==
  /\ \A t \in BagToSet(tasks) : t.pc = "done"
  /\ \A s \in BagToSet(synths) : s.pc = "done"
  /\ \A l \in BagToSet(looks) : l.pc = "done"

\* C2: once 10 original games are analyzed and an analyzed non-original game
\* has no verdict, every analyzed non-original game eventually has
\* analysis.isValidLookAlike written: when every started run has been
\* executed to its end, and none has failed, no verdict is still owed.
C2_VerdictEventually == Finished => ~verdictOwed

\* the gate of the synthesis, on the count its first step has read
GateMet(count) == count >= 3 /\ count % 3 = 0

\* a step that writes the user analysis, or records such a write
ProfileWritten ==
  userAnalysis' # userAnalysis \/ profileWrites' # profileWrites

C4_SynthesisAtEveryMultiple ==
  Finished =>
    \A m \in 1..checkGamesCount(games) :
      m % 3 = 0 => \E w \in profileWrites : w >= m

\* the step is the save of run t
SaveStepOf(t) ==
  /\ t.pc = "saveAnalysisToMongoDB"
  /\ tasks' = Replace(tasks, t, [t EXCEPT !.pc = "checkGamesCountAfter"])
  /\ now' = now + 1

\* a document without the time of its analysis
Logical(doc) ==
  IF doc.analysis.ty = "obj"
  THEN [doc EXCEPT !.analysis =
          Obj([f \in DOMAIN doc.analysis.o \ {"analyzedAt"} |-> doc.analysis.o[f]])]
  ELSE doc

\* the store holds what an earlier run of t's game wrote from t's input
EarlierRunStored(t) ==
  /\ t.game.id \in DOMAIN games
  /\ \E original \in BOOLEAN :
       Logical(games[t.game.id])
         = Logical(AnalysisDocument(t.game, t.analysis, t.pgn, original, 0))

\* C5: the save of a second run on the same game with the same fetched PGN
\* and the same oracle output leaves every document of the store as the
\* first run left it, the analysis fields and analysis.original included.
C5_SecondRunChangesNothing ==
  [][\A t \in BagToSet(tasks) :
       (SaveStepOf(t) /\ EarlierRunStored(t)) =>
         \A id \in DOMAIN games : Logical(games'[id]) = Logical(games[id])]_vars

\* C6: each of the first 10 games saved with an analysis is saved with
\* analysis.original true, in the order of the saves.
C6_FirstTenAreOriginal ==
  [][\A id \in everAnalyzed' \ everAnalyzed :
       Cardinality(everAnalyzed) < 10 => IsOriginal(games'[id])]_vars

\* the tenth analyzed game is the later one of the request, and is original
C6_Witness ==
  /\ Cardinality(everAnalyzed) = 10
  /\ (K + 1) \in everAnalyzed /\ K \notin everAnalyzed
  /\ IsOriginal(games[K + 1])

\* C7: once a run has stored analysis.original for a game, no later step of
\* an analysis run, a look-alike run or a synthesis run changes its value.
C7_OriginalNeverChanges ==
  [][requests' = requests =>
       \A id \in DOMAIN games :
         Get(games[id].analysis, "original").ty = "bool" =>
           Get(games'[id].analysis, "original") = Get(games[id].analysis, "original")]_vars

\* the ids of the raw games the user played
EligibleIds ==
  {rawGames[i].id : i \in {j \in 1..Len(rawGames) : RawResult(rawGames[j]) # "none"}}

\* no id comes twice in the raw list
DistinctRawIds == \A i, j \in 1..Len(rawGames) : rawGames[i].id = rawGames[j].id => i = j

PoolOfSixteen ==
  /\ requests = 1
  /\ DistinctRawIds
  /\ RawCount("win") = 12 /\ RawCount("loss") = 3 /\ RawCount("draw") = 1

\* C11 as stated: from a pool of 12 wins, 3 losses and 1 draw the selection
\* is 10 wins, 3 losses and 1 draw, 14 games, and is not filled further.
C11_FourteenNotPadded ==
  PoolOfSixteen =>
    /\ SelectedCount("win") = 10
    /\ SelectedCount("loss") = 3
    /\ SelectedCount("draw") = 1
    /\ BagCardinality(tasks) = 14
    /\ response.count = 14

\* C11 as amended: from a pool of 12 wins, 3 losses and 1 draw the quotas
\* take 10 wins, 3 losses and 1 draw and the 2 wins left are filled in: the
\* selection is the whole pool, 12 wins, 3 losses and 1 draw, 16 games.
C11_PoolFilledToSixteen ==
  PoolOfSixteen =>
    /\ SelectedCount("win") = 12
    /\ SelectedCount("loss") = 3
    /\ SelectedCount("draw") = 1
    /\ BagCardinality(tasks) = 16
    /\ response.count = 16
    /\ {t.game.id : t \in BagToSet(tasks)} = EligibleIds

\* the pool of 16 has been selected from, with a game the user did not play
C11_Witness ==
  /\ PoolOfSixteen
  /\ Len(rawGames) = 17
  /\ BagCardinality(tasks) = 16

\* C12: the selection never holds the same id twice, also when an id comes
\* more than once in the raw list.
C12_NoIdTwice ==
  \A t, u \in BagToSet(tasks) :
    /\ CopiesIn(t, tasks) = 1
    /\ t.game.id = u.game.id => t = u

\* C13: the size of the selection is the smaller of 25 and the number of
\* games of the raw list the user played, and never more than 25.
C13_SizeIsMinOfTargetAndPool ==
  requests = 1 =>
    /\ BagCardinality(tasks) = Min(25, Cardinality(EligibleIds))
    /\ response.count = BagCardinality(tasks)
    /\ BagCardinality(tasks) <= 25

\* the fetch failures the claim names: invalid id, not found, empty payload
FatalFetch == {"invalid", "404", "200 empty"}

\* C16: a run whose fetch of the PGN has failed for an invalid id, a game
\* not found or an empty payload has ended there: it has written nothing,
\* has started no synthesis and no look-alike run, and its game is stored
\* as the request left it, without an analysis.
C16_FatalFetchLeavesGame ==
  \A t \in BagToSet(tasks) :
    t.error \in FatalFetch =>
      /\ t.pc = "failed"
      /\ games[t.game.id] = createGameAnalysisDocument(t.game, Undefined, Undefined)
      /\ ~HasAnalysis(games[t.game.id])
      /\ everAnalyzed = {}
      /\ userAnalysis = NoDoc
      /\ synths = EmptyBag /\ looks = EmptyBag

\* the run has ended on a game that was not found
C16_Witness ==
  \E t \in BagToSet(tasks) : t.pc = "failed" /\ t.error = "404"

\* C17: a 429 answer to the fetch of the PGN does not end the run: the step
\* is tried again.
C17_RateLimitDoesNotEndRun ==
  \A t \in BagToSet(tasks) : t.error = "429" => t.pc # "failed"


(***************************************************************************)
(* The look-alike judgement of one candidate.                              *)
(***************************************************************************)
\* the run of l is at the update of its current candidate
Updating == {l \in BagToSet(looks) : l.pc = "updateGameWithLookAlike"}

Candidate(l) == l.nonOriginalGames[l.index]

\* the judgement of the candidate of l failed: no response was obtained, or
\* the response text was empty or could not be parsed
JudgementFailed(l) ==
  Trim(l.responseText) = <<>> \/ ~JsonParses(StripFences(l.responseText))

\* the step is the update of the run l
IsUpdateOf(l) == CopiesIn(l, looks') < CopiesIn(l, looks)

\* the stored analysis of the game carries the fixed verdict of a failure
FixedVerdictStored(coll, gameId) ==
  /\ gameId \in DOMAIN coll
  /\ Get(coll[gameId].analysis, "isValidLookAlike") = Bool(FALSE)
  /\ Get(coll[gameId].analysis, "thematicMatch") =
       Text("Unable to analyze game due to missing data or API error")
  /\ Get(coll[gameId].analysis, "matchedOriginalGameIds") = Arr(<<>>)

\* C14: a failed judgement of a candidate yields the fixed verdict "not a
\* match", with the fixed rationale and no matched games, and the update
\* step stores that verdict on the candidate, which is then no candidate
C14_FailureVerdictPersisted ==
  [][\A l \in Updating :
       JudgementFailed(l) /\ IsUpdateOf(l) =>
         /\ ~l.lookAlikeAnalysis.isValidLookAlike
         /\ l.lookAlikeAnalysis.matchedOriginalGameIds = <<>>
         /\ FixedVerdictStored(games', Candidate(l).gameId)
         /\ Candidate(l).gameId \notin CandidateIds(games')]_vars

\* the candidates of the run l that have been through the loop
Attempted(l) ==
  IF l.pc = "done" THEN Len(l.nonOriginalGames) ELSE l.index - 1

\* C15: every loaded candidate is attempted and contributes exactly one
\* entry to the result list, in the order loaded, whether its judgement or
\* its update failed or not; a run that ends after the loop has one entry
\* for every candidate it loaded
C15_OneEntryPerCandidate ==
  \A l \in BagToSet(looks) :
    l.pc \in {"analyzeLookAlikeGame", "updateGameWithLookAlike", "done"} =>
      /\ Len(l.results) = Attempted(l)
      /\ \A i \in 1..Len(l.results) :
           l.results[i].gameId = l.nonOriginalGames[i].gameId

\* a run has ended with an entry for each of its candidates, the first of
\* which could not be persisted
C15_Witness ==
  \E l \in BagToSet(looks) :
    /\ l.pc = "done" /\ l.result = "success"
    /\ Len(l.nonOriginalGames) = NumCandidates
    /\ Len(l.results) = NumCandidates
    /\ ~l.results[1].success
    /\ l.results[NumCandidates].success

(***************************************************************************)
(* Isolation of the runs of the pipeline (Spec).                           *)
(***************************************************************************)
\* every analysis run has returned or has failed
TasksEnded == \A t \in BagToSet(tasks) : t.pc \in {"done", "failed"}

\* C18: whichever sibling runs fail, every selected game whose own fetch and
\* oracle call succeeded is persisted as analyzed: when every analysis run
\* has ended, the game of every run that returned has been analyzed
C18_ReturnedRunsAreAnalyzed ==
  TasksEnded => \A t \in BagToSet(tasks) : t.pc = "done" => t.game.id \in everAnalyzed

\* the step ends a synthesis run or a look-alike run in failure, or is an
\* update of a look-alike run that could not be applied
StageFails ==
  \/ \E s \in BagToSet(synths') :
       s.pc = "failed" /\ CopiesIn(s, synths') > CopiesIn(s, synths)
  \/ \E l \in BagToSet(looks') :
       /\ l.pc = "done" /\ l.result # "success"
       /\ CopiesIn(l, looks') > CopiesIn(l, looks)
  \/ \E l \in Updating :
       IsUpdateOf(l) /\ ~CanUpdate(games, Candidate(l).gameId)

ReturnedRuns == [t \in {u \in BagToSet(tasks) : u.pc = "done"} |-> tasks[t]]

\* C19: a failure of the synthesis or of the look-alike run an analysis run
\* started never changes that run's outcome: the run has returned success
\* when it starts them (one synthesis per returned run), and the failing
\* step changes no analysis run and no stored game
C19_StageFailureLeavesTask ==
  /\ [](BagCardinality(synths) = BagCardinality(ReturnedRuns))
  /\ [][StageFails => tasks' = tasks /\ games' = games]_vars

\* a synthesis has failed; the run that started it has returned and its game
\* is stored as analyzed
C19_Witness ==
  /\ \E s \in BagToSet(synths) : s.pc = "failed"
  /\ \E l \in BagToSet(looks) : l.pc = "done" /\ l.result # "success"
  /\ \E t \in BagToSet(tasks) : t.pc = "done" /\ t.game.id \in AnalyzedIds(games)

(***************************************************************************)
(* The verification of a look-alike run (LookSpec).                        *)
(***************************************************************************)
Verifying == {l \in BagToSet(looks) : l.pc \in {"verifyTenGamesAnalyzed", "sleep"}}

\* the run that the step of l leaves behind
After(l) == {m \in BagToSet(looks') : CopiesIn(m, looks') > CopiesIn(m, looks)}

\* C20: the verification of a look-alike run ends after at most 5 sleeps,
\* each followed by a new reading of the count; a run that gives up has slept
\* 5 times, has read a count below K, returns insufficient_games, and neither
\* it nor any step of a verification has written to the store
C20_VerifyIsBounded ==
  /\ [](\A l \in BagToSet(looks) :
         /\ l.retryCount <= 5
         /\ l.pc = "sleep" => l.retryCount < 5 /\ l.count < K
         /\ l.result = "insufficient_games" =>
              /\ l.pc = "done" /\ l.retryCount = 5 /\ l.count < K
              /\ l.results = <<>> /\ l.nonOriginalGames = <<>>)
  /\ [][\A l \in Verifying :
         IsUpdateOf(l) =>
           /\ games' = games /\ userAnalysis' = userAnalysis
           /\ \A m \in After(l) :
                /\ m.count = checkGamesCount(games)
                /\ l.pc = "sleep" => m.retryCount = l.retryCount + 1]_vars

\* a run has given up after the fifth sleep
C20_Witness ==
  \E l \in BagToSet(looks) :
    l.pc = "done" /\ l.result = "insufficient_games" /\ l.retryCount = 5
      /\ checkGamesCount(games) < K

(***************************************************************************)
(* The profile in a look-alike run (LookSpec).                             *)
(***************************************************************************)
InLoop == {l \in BagToSet(looks) :
             l.pc \in {"analyzeLookAlikeGame", "updateGameWithLookAlike"}}

\* C21: when the subject has no profile, or reading it fails, the look-alike
\* run goes on to its next step with an empty profile, and with an empty
\* profile it attempts every candidate it loads: the absence of the profile
\* never ends the run
C21_AbsentProfileDoesNotBlock ==
  /\ [][\A l \in BagToSet(looks) :
         l.pc = "getUserSynthesis" /\ IsUpdateOf(l) =>
           \A m \in After(l) :
             /\ m.pc = "getOriginalGames" /\ m.result = "none"
             /\ userAnalysis = NoDoc => m.userSynthesis = NoDoc]_vars
  /\ [](\A l \in InLoop :
         l.userSynthesis = NoDoc =>
           l.index <= Len(l.nonOriginalGames) /\ Len(l.results) = l.index - 1)
  /\ [](userAnalysis = NoDoc =>
         \A l \in BagToSet(looks) :
           l.pc = "done" =>
             /\ l.result \in {"success", "insufficient_games",
                              "insufficient_original_games"}
             /\ l.result = "success" => Len(l.results) = Len(l.nonOriginalGames))

\* the subject has no profile, and a run has ended after judging each of its
\* candidates, one of them a look-alike
C21_Witness ==
  /\ userAnalysis = NoDoc
  /\ \E l \in BagToSet(looks) :
       /\ l.pc = "done" /\ l.result = "success"
       /\ Len(l.results) = NumCandidates
       /\ \E i \in 1..Len(l.results) : l.results[i].isValidLookAlike

(***************************************************************************)
(* The profile one synthesis run writes (SynthSpec).                       *)
(***************************************************************************)
Saving == {s \in BagToSet(synths) : s.pc = "saveUserAnalysisToMongoDB"}

IsStepOf(s) == CopiesIn(s, synths') < CopiesIn(s, synths)

AnalyzedWithResult(coll, r) == {id \in AnalyzedIds(coll) : coll[id].result = r}

RECURSIVE RatingSum(_, _)
RatingSum(coll, ids) ==
  IF ids = {} THEN 0
  ELSE LET id == CHOOSE i \in ids : TRUE
       IN coll[id].userRating.n + RatingSum(coll, ids \ {id})

\* the number of analyzed games with this opening, and with this tag
WithOpening(coll, v) ==
  Cardinality({id \in AnalyzedIds(coll) : Get(coll[id].analysis, "opening") = v})

WithConcept(coll, v) ==
  Cardinality({id \in AnalyzedIds(coll) :
                 /\ Get(coll[id].analysis, "concepts").ty = "arr"
                 /\ v \in Elems(Get(coll[id].analysis, "concepts").a)})

\* a list without repetition, of at most n values, that holds a value
\* whenever it holds a less frequent one, the more frequent first
IsFrequencyList(list, n, Count(_)) ==
  /\ list.ty = "arr" /\ Len(list.a) <= n /\ Len(list.a) > 0
  /\ \A i, j \in 1..Len(list.a) :
       /\ i # j => list.a[i] # list.a[j]
       /\ i < j => Count(list.a[i]) >= Count(list.a[j])
  /\ \A i \in 1..Len(list.a) : Count(list.a[i]) > 0

\* the aggregates of the profile are those of the analyzed games of the store
AggregatesOf(doc, coll) ==
  LET n == Cardinality(AnalyzedIds(coll))
      OpeningCount(v) == WithOpening(coll, v)
      ConceptCount(v) == WithConcept(coll, v)
  IN
  /\ doc.gamesAnalyzed = n
  /\ Elems(doc.gameIds) = AnalyzedIds(coll) /\ Len(doc.gameIds) = n
  /\ doc.wins = Cardinality(AnalyzedWithResult(coll, "win"))
  /\ doc.losses = Cardinality(AnalyzedWithResult(coll, "loss"))
  /\ doc.draws = Cardinality(AnalyzedWithResult(coll, "draw"))
  /\ doc.ratingRange.ty = "obj" /\ doc.averageRating.ty = "num"
  /\ \A id \in AnalyzedIds(coll) :
       /\ doc.ratingRange.o.min.n <= coll[id].userRating.n
       /\ doc.ratingRange.o.max.n >= coll[id].userRating.n
  /\ \E id \in AnalyzedIds(coll) : doc.ratingRange.o.min.n = coll[id].userRating.n
  /\ \E id \in AnalyzedIds(coll) : doc.ratingRange.o.max.n = coll[id].userRating.n
  /\ 2 * doc.averageRating.n * n <= 2 * RatingSum(coll, AnalyzedIds(coll)) + n
  /\ 2 * doc.averageRating.n * n > 2 * RatingSum(coll, AnalyzedIds(coll)) - n
  /\ IsFrequencyList(doc.commonOpenings, 5, OpeningCount)
  /\ IsFrequencyList(doc.commonConcepts, 10, ConceptCount)

\* C22: when the gate holds and the response of the oracle is not JSON, the
\* synthesis run does not fail: it goes on to its save, which writes the
\* profile with the aggregates computed from the analyzed games (count, ids,
\* wins, losses, draws, rating average and range, most common openings and
\* tags) and with the first 500 characters of the response as summary
C22_UnparsedStillWritesProfile ==
  /\ [](\A s \in BagToSet(synths) :
         s.responseText # <<>> => s.pc = "saveUserAnalysisToMongoDB")
  /\ [][\A s \in Saving :
         NotJson(s.responseText) /\ IsStepOf(s) =>
           /\ userAnalysis' # NoDoc
           /\ AggregatesOf(userAnalysis', games)
           /\ Len(userAnalysis'.summaryAnalysis.s) <= 500
           /\ \A i \in 1..Len(s.responseText) :
                i <= 500 => userAnalysis'.summaryAnalysis.s[i] = s.responseText[i]
           /\ Len(s.responseText) <= 500 =>
                userAnalysis'.summaryAnalysis.s = s.responseText]_vars

\* a profile of 12 games written from a response that is no JSON and longer
\* than the summary may be
C22_Witness ==
  /\ userAnalysis # NoDoc
  /\ userAnalysis.gamesAnalyzed = 12
  /\ Len(userAnalysis.summaryAnalysis.s) = 500
  /\ userAnalysis.wins = 4
  /\ Len(userAnalysis.commonConcepts.a) = 3

(***************************************************************************)
(* Verdicts in the store (Spec).                                           *)
(***************************************************************************)
HasVerdict(doc) == Get(doc.analysis, "isValidLookAlike") # Undefined

VerdictIds(coll) == {id \in DOMAIN coll : HasVerdict(coll[id])}

\* the fields of a look-alike verdict, as stored
VerdictOf(doc) ==
  [f \in {"isValidLookAlike", "thematicMatch", "matchedOriginalGameIds",
          "thematicConnections"} |-> Get(doc.analysis, f)]

\* the step is an update of some look-alike run
IsLookUpdate == \E l \in Updating : IsUpdateOf(l)

\* C23: a look-alike run acts on a candidate only if the candidate has no
\* verdict at that moment: an update of a look-alike run leaves the verdict of
\* every game that has one as it is (stated for a single request, so that no
\* analysis is replaced in between)
C23_VerdictWrittenOnce ==
  [][(requests <= 1 /\ IsLookUpdate) =>
       \A id \in VerdictIds(games) : VerdictOf(games'[id]) = VerdictOf(games[id])]_vars

(***************************************************************************)
(* The dispatch of the look-alike run (Spec).                              *)
(***************************************************************************)
Triggering == {t \in BagToSet(tasks) : t.pc = "checkGamesCountAfter"}

IsTaskStepOf(t) == CopiesIn(t, tasks') < CopiesIn(t, tasks)

Dispatched == BagCardinality(looks') - BagCardinality(looks)

\* C24: after its save, an analysis run starts the look-alike run if and only
\* if the count it then reads is 10, or it decided its game non-original and
\* the count is above 10; it starts none while the count is below 10, and
\* nothing else starts a look-alike run
C24_DispatchRule ==
  [][/\ \A t \in Triggering :
         IsTaskStepOf(t) =>
           LET count == checkGamesCount(games) IN
           Dispatched = IF count = 10 \/ (~t.original /\ count > 10) THEN 1 ELSE 0
     /\ Dispatched > 0 => \E t \in Triggering : IsTaskStepOf(t)]_vars

\* an original run has returned after reading the count 10, and a non-original
\* run after reading a count above 10; look-alike runs were started
C24_Witness ==
  /\ \E t \in BagToSet(tasks) : t.pc = "done" /\ t.original /\ t.gamesCountAfter = 10
  /\ \E t \in BagToSet(tasks) : t.pc = "done" /\ ~t.original /\ t.gamesCountAfter > 10
  /\ BagCardinality(looks) = 2

\* the verdict of some game is new or has changed in the step
VerdictWritten ==
  \E id \in VerdictIds(games') :
    id \notin VerdictIds(games) \/ VerdictOf(games'[id]) # VerdictOf(games[id])

\* C25: a look-alike run writes a verdict only after it has read a count of at
\* least 10 analyzed games and has loaded 10 original games; a run that finds
\* fewer than 10 original games returns insufficient_original_games, having
\* loaded no candidate and written nothing
C25_VerdictNeedsTenOriginals ==
  /\ [](\A l \in BagToSet(looks) :
         /\ l \in InLoop => l.count >= 10 /\ Len(l.originalGames) = 10
         /\ l.result = "insufficient_original_games" =>
              l.pc = "done" /\ l.results = <<>> /\ l.nonOriginalGames = <<>>)
  /\ [][/\ (VerdictWritten /\ looks' # looks) =>
            \E l \in Updating :
              IsUpdateOf(l) /\ l.count >= 10 /\ Len(l.originalGames) = 10
        /\ \A l \in BagToSet(looks) :
             (l.pc = "getOriginalGames" /\ IsUpdateOf(l)) =>
               /\ games' = games
               /\ \A m \in After(l) :
                    m.result = "insufficient_original_games"
                      <=> Cardinality(AnalyzedOriginals) < 10]_vars

\* a run that read at least 10 analyzed games found fewer than 10 originals
\* and has returned, while another has written a verdict
C25_Witness ==
  /\ \E l \in BagToSet(looks) :
       l.pc = "done" /\ l.result = "insufficient_original_games" /\ l.count >= 10
  /\ VerdictIds(games) # {}

\* C26: in every state, a game that carries a look-alike verdict is analyzed
\* and is not an original game
C26_VerdictOnlyOnAnalyzedNonOriginal ==
  \A id \in VerdictIds(games) : HasAnalysis(games[id]) /\ ~IsOriginal(games[id])

VerdictFields ==
  {"isValidLookAlike", "thematicMatch", "matchedOriginalGameIds", "thematicConnections"}

\* the verdict of the run is a match that comes with a non-empty rewrite
MatchWithRewrite(l) ==
  /\ l.lookAlikeAnalysis.isValidLookAlike
  /\ l.lookAlikeAnalysis.updatedAnalysis.ty = "str"
  /\ l.lookAlikeAnalysis.updatedAnalysis.s # <<>>

\* C27: the update of a look-alike run that stores a verdict on its candidate
\* sets analysis.finalAnalysis to the rewrite if the verdict is a match with
\* a non-empty rewrite, and leaves it as it is otherwise; it leaves the
\* original flag, the tags and every other field of the analysis, the other
\* fields of the document and all other documents as they are
C27_UpdateFrame ==
  [][\A l \in Updating :
       (IsUpdateOf(l) /\ CanUpdate(games, Candidate(l).gameId)) =>
         LET id == Candidate(l).gameId
             old == games[id].analysis
             new == games'[id].analysis
         IN
         /\ DOMAIN games' = DOMAIN games
         /\ \A other \in DOMAIN games \ {id} : games'[other] = games[other]
         /\ [games'[id] EXCEPT !.analysis = old] = games[id]
         /\ new.ty = "obj"
         /\ DOMAIN new.o \ (VerdictFields \cup {"finalAnalysis"})
              = DOMAIN old.o \ (VerdictFields \cup {"finalAnalysis"})
         /\ \A f \in DOMAIN old.o \ (VerdictFields \cup {"finalAnalysis"}) :
              new.o[f] = old.o[f]
         /\ VerdictFields \subseteq DOMAIN new.o
         /\ Get(new, "finalAnalysis") =
              IF MatchWithRewrite(l) THEN l.lookAlikeAnalysis.updatedAnalysis
              ELSE Get(old, "finalAnalysis")]_vars

\* a stored match whose summary is the rewrite and whose tags are kept, and
\* a stored non-match
C27_Witness ==
  \E id \in VerdictIds(games) :
    /\ Get(games[id].analysis, "isValidLookAlike") = Bool(TRUE)
    /\ Get(games[id].analysis, "finalAnalysis") = Text("rewrite")
    /\ Get(games[id].analysis, "concepts") = Arr(<<Text("c1"), Text("c2")>>)
    /\ Get(games[id].analysis, "original") = Bool(FALSE)

(***************************************************************************)
(* The count that decides original (Spec).                                 *)
(***************************************************************************)
Deciding == {t \in BagToSet(tasks) : t.pc = "checkGamesCount"}

BeforeSave ==
  {t \in BagToSet(tasks) :
     t.pc \in {"fetchPGN", "analyzeGameWithGemini", "checkGamesCount"}}

AfterTask(t) == {u \in BagToSet(tasks') : CopiesIn(u, tasks') > CopiesIn(u, tasks)}

\* C28, as claimed: the count that decides original is read after the run has
\* saved its game, so that the game of the run is among the analyzed games
\* the read counts
C28_ReadAfterOwnSave ==
  [][\A t \in Deciding : IsTaskStepOf(t) => t.game.id \in AnalyzedIds(games)]_vars

\* C28, amended: the count that decides original is read before the run
\* saves its game: the step that reads it writes nothing, decides original
\* as count < 10 and is followed by the save of the run, which stores that
\* flag; with one request, the game of a run that has not saved yet is not
\* among the analyzed games, so the count does not include it
C28_ReadBeforeOwnSave ==
  /\ [][\A t \in Deciding :
         IsTaskStepOf(t) =>
           /\ games' = games
           /\ \A u \in AfterTask(t) :
                /\ u.pc = "saveAnalysisToMongoDB"
                /\ u.original = (checkGamesCount(games) < 10)]_vars
  /\ [][\A t \in BagToSet(tasks) :
         (t.pc = "saveAnalysisToMongoDB" /\ IsTaskStepOf(t)) =>
           Get(games'[t.game.id].analysis, "original") = Bool(t.original)]_vars
  /\ [](requests <= 1 =>
         \A t \in BeforeSave : t.game.id \notin AnalyzedIds(games))

\* the run of the tenth game has read the count 9 and stored its game as
\* original; the count after its save is 10
C28_Witness ==
  /\ requests = 1
  /\ \E t \in BagToSet(tasks) :
       /\ t.pc = "done" /\ t.original /\ t.gamesCountAfter = 10
       /\ t.game.id \in AnalyzedIds(games)
       /\ IsOriginal(games[t.game.id])

(***************************************************************************)
(* Original games under serial execution (SerialSpec).                     *)
(***************************************************************************)
\* the number of analyzed games that were analyzed before the game
AnalyzedBefore(coll, id) ==
  Cardinality({other \in AnalyzedIds(coll) : AnalyzedAt(coll, other) < AnalyzedAt(coll, id)})

\* C29: when no run reads the count while another is between its read and
\* its save, and every game is analyzed once, a game is stored as original
\* if and only if it is among the first 10 games saved, so that exactly
\* min(10, number of analyzed games) games are original
C29_SerialOriginals ==
  /\ \A id \in AnalyzedIds(games) :
       IsOriginal(games[id]) <=> AnalyzedBefore(games, id) < 10
  /\ Cardinality(OriginalIds(games)) = Min(10, checkGamesCount(games))


(***************************************************************************)
(* Properties of the writes on the collections (StoreSpec).                *)
(***************************************************************************)
\* the documents of a collection whose fields have these values, counted
\* with their copies
Copies(coll, key) ==
  LET matched ==
        {doc \in BagToSet(coll) : \A f \in DOMAIN key : doc[f] = key[f]}
      counts == [doc \in matched |-> CopiesIn(doc, coll)]
  IN BagCardinality(counts)

Started == tasks' (-) tasks

\* the runs of a bag for the game with this id, counted with their copies
RunsFor(bag, id) ==
  BagCardinality([t \in {r \in BagToSet(bag) : r.game.id = id} |-> CopiesIn(t, bag)])

\* C31: a request starts exactly one analysis run for each selected game,
\* each at its first step when the response is made, and the response
\* counts the selected games; a later step of a run, a failing one too,
\* leaves the response and every other run as they are.
C31_OneRunPerSelectedGame ==
  [][IF requests' # requests
     THEN LET selected == selectedGames(rawGames') IN
          /\ \A i \in 1..Len(selected) : RunsFor(Started, selected[i].id) = 1
          /\ \A t \in BagToSet(Started) :
               t.pc = "fetchPGN" /\ \E i \in 1..Len(selected) : t.game.id = selected[i].id
          /\ response'.success /\ response'.count = Len(selected)
     ELSE /\ response' = response
          /\ BagCardinality(tasks') = BagCardinality(tasks)
          /\ BagCardinality(tasks (-) tasks') <= 1]_vars

\* C32: a request has stored every selected game, without analysis, when it
\* starts the runs, so that the game of every analysis run and the candidate
\* of every look-alike run that judges or updates is a game of the store.
C32_StoredBeforeDispatch ==
  /\ [](\A t \in BagToSet(tasks) : t.game.id \in DOMAIN games)
  /\ [](\A l \in BagToSet(looks) :
          l.pc \in {"analyzeLookAlikeGame", "updateGameWithLookAlike"} =>
            Candidate(l).gameId \in DOMAIN games)
  /\ [][requests' # requests =>
          \A t \in BagToSet(Started) :
            /\ t.game.id \in DOMAIN games'
            /\ ~HasAnalysis(games'[t.game.id])]_vars

\* a game the store did not hold at first has been analyzed and has been
\* given a verdict
C32_Witness ==
  /\ K + 1 \in DOMAIN games
  /\ K + 1 \notin DOMAIN SerialGames(K)
  /\ HasVerdict(games[K + 1])

(***************************************************************************)
(* The analyzed games of the store over time (Spec).                       *)
(***************************************************************************)
\* C33: an analyzed game stays analyzed, and the count of analyzed games
\* never decreases, whatever the step, a request that stores an analyzed
\* game again included.
C33_AnalyzedStaysAnalyzed ==
  [][/\ AnalyzedIds(games) \subseteq AnalyzedIds(games')
     /\ checkGamesCount(games') >= checkGamesCount(games)]_vars

C35_ProfileNeverShrinks ==
  [][(userAnalysis # NoDoc /\ userAnalysis' # NoDoc) =>
       userAnalysis'.gamesAnalyzed >= userAnalysis.gamesAnalyzed]_vars

(***************************************************************************)
(* Originals and verdicts when every run has returned (Spec).              *)
(***************************************************************************)
\* the ids of the original games a look-alike run would load
ComparedIds == Elems(getOriginalGames(games))

\* C36: when every analysis run and every started synthesis and look-alike
\* run has returned and more than 10 games are analyzed, every analyzed game
\* is one of the 10 original games the look-alike run compares against or
\* carries a verdict.
C36_OriginalOrJudged ==
  (Finished /\ checkGamesCount(games) > K) =>
    \A id \in AnalyzedIds(games) : id \in ComparedIds \/ HasVerdict(games[id])

(***************************************************************************)
(* The matched ids of a verdict (LookSpec).                                *)
(***************************************************************************)
\* C37: the matchedOriginalGameIds an update of a look-alike run stores on
\* its candidate are ids of original games the run has loaded, and there
\* are none when the stored verdict is not a match.
C37_MatchedIdsAreLoadedOriginals ==
  [][\A l \in Updating :
       (IsUpdateOf(l) /\ CanUpdate(games, Candidate(l).gameId)) =>
         LET new == games'[Candidate(l).gameId].analysis
             stored == Get(new, "matchedOriginalGameIds").a
         IN
         /\ \A i \in 1..Len(stored) :
              \E o \in Elems(l.originalGames) : stored[i] = IdText(o)
         /\ Get(new, "isValidLookAlike") = Bool(FALSE) => stored = <<>>]_vars
====
